---- MODULE Spec2Model ----
(***************************************************************************)
(* Boxes, BoxSets and the R-tree index of interval-sets                    *)
(* (src/src/multidimensional.py, src/src/spatial.py).                      *)
(*                                                                         *)
(* Coordinates are integers.  The boxes that are fed in have even          *)
(* endpoints and the points that are looked up run over all integers, so   *)
(* that there is a point on every endpoint and one strictly between each   *)
(* two neighbouring endpoints.                                             *)
(***************************************************************************)
EXTENDS Integers, Sequences, FiniteSets, TLC

\* In Spec each of A and B takes at most MaxAdds adds, and A at most MaxOps
\* set operations.
MaxAdds == 2
MaxOps == 1

\* The longest sequence of adds of SpecIndex.
MaxIndexAdds == 11

\* The longest sequence of adds of SpecItems.
MaxItemAdds == 3

\* The most holes punched into the cube of SpecFrame.
MaxHoles == 3

\* The most operations called in a run of SpecObjects.
MaxCalls == 1

\* The boxes of SpecBox have their endpoints in 0, 2, .., 2 * BoxMaxCoord.
BoxMaxCoord == 2

\* Largest coordinate of the items of SpecRTree, and the longest sequence of
\* inserts.
TreeMaxCoord == 2
MaxInserts == 5

\* RTree.__init__: min_entries, max_entries
DefaultMinEntries == 2
DefaultMaxEntries == 4

\* BoxSet.add: the index is built once the set holds more boxes than this
IndexThreshold == 10

Max(a, b) == IF a >= b THEN a ELSE b
Min(a, b) == IF a <= b THEN a ELSE b

(***************************************************************************)
(* Interval: the one-dimensional collaborator (src/intervals.py is not     *)
(* part of the sources; modelled from the interface the specification      *)
(* lists: exact open/closed point-set semantics).                          *)
(***************************************************************************)
Interval(s, e, os, oe) ==
    [start |-> s, end |-> e, open_start |-> os, open_end |-> oe]

Closed(s, e) == Interval(s, e, FALSE, FALSE)

EmptyInterval == Interval(0, 0, TRUE, TRUE)

IsEmptyI(i) ==
    \/ i.start > i.end
    \/ i.start = i.end /\ (i.open_start \/ i.open_end)

LengthI(i) == IF IsEmptyI(i) THEN 0 ELSE i.end - i.start

\* interval.contains(value)
ContainsI(i, v) ==
    /\ ~IsEmptyI(i)
    /\ IF i.open_start THEN i.start < v ELSE i.start <= v
    /\ IF i.open_end THEN v < i.end ELSE v <= i.end

IntersectionI(i, j) ==
    IF IsEmptyI(i) \/ IsEmptyI(j) THEN EmptyInterval
    ELSE LET s  == Max(i.start, j.start)
             e  == Min(i.end, j.end)
             os == \/ i.start = s /\ i.open_start
                   \/ j.start = s /\ j.open_start
             oe == \/ i.end = e /\ i.open_end
                   \/ j.end = e /\ j.open_end
             r  == Interval(s, e, os, oe)
         IN  IF IsEmptyI(r) THEN EmptyInterval ELSE r

OverlapsI(i, j) == ~IsEmptyI(IntersectionI(i, j))

\* interval.is_adjacent(other): the two touch at an endpoint that exactly one
\* of them holds
IsAdjacentI(i, j) ==
    /\ ~IsEmptyI(i)
    /\ ~IsEmptyI(j)
    /\ \/ i.end = j.start /\ i.open_end # j.open_start
       \/ j.end = i.start /\ j.open_end # i.open_start

\* interval.closure()
ClosureI(i) == IF IsEmptyI(i) THEN i ELSE Closed(i.start, i.end)

\* interval.interior()
InteriorI(i) ==
    IF IsEmptyI(i) \/ i.start = i.end THEN EmptyInterval
    ELSE Interval(i.start, i.end, TRUE, TRUE)

\* interval.minkowski_sum(other): the sums of a point of each
MinkowskiSumI(i, j) ==
    IF IsEmptyI(i) \/ IsEmptyI(j) THEN EmptyInterval
    ELSE Interval(i.start + j.start, i.end + j.end,
                  i.open_start \/ j.open_start, i.open_end \/ j.open_end)

\* interval.minkowski_difference(other): the shifts that keep other inside
\* the interval
MinkowskiDifferenceI(i, j) ==
    IF IsEmptyI(i) \/ IsEmptyI(j) THEN EmptyInterval
    ELSE LET r == Interval(i.start - j.start, i.end - j.end,
                           i.open_start /\ ~j.open_start,
                           i.open_end /\ ~j.open_end)
         IN  IF IsEmptyI(r) THEN EmptyInterval ELSE r

(***************************************************************************)
(* Box: a sequence of N Intervals.                                         *)
(***************************************************************************)
BoxDimension(b) == Len(b)

EmptyBox(n) == [d \in 1..n |-> EmptyInterval]

BoxIsEmpty(b) == \E d \in 1..Len(b) : IsEmptyI(b[d])

RECURSIVE ProdLen(_, _)
ProdLen(b, d) == IF d > Len(b) THEN 1 ELSE LengthI(b[d]) * ProdLen(b, d + 1)

BoxVolume(b) == IF BoxIsEmpty(b) THEN 0 ELSE ProdLen(b, 1)

\* Box.contains(point)
BoxContainsPoint(b, p) ==
    /\ ~BoxIsEmpty(b)
    /\ \A d \in 1..Len(b) : ContainsI(b[d], p[d])

BoxOverlaps(a, b) ==
    /\ ~BoxIsEmpty(a)
    /\ ~BoxIsEmpty(b)
    /\ \A d \in 1..Len(a) : OverlapsI(a[d], b[d])

BoxIntersection(a, b) ==
    [d \in 1..Len(a) |->
        LET inter == IntersectionI(a[d], b[d])
        IN  IF IsEmptyI(inter) THEN EmptyInterval ELSE inter]

\* Slices with a wrong flag: the cut takes the intersection's own flag, not its
\* complement.
RECURSIVE SlicesSameFlag(_, _, _)
SlicesSameFlag(cur, ov, d) ==
    IF d > Len(cur) THEN <<>>
    ELSE LET r_int     == cur[d]
             o_int     == ov[d]
             left_int  == Interval(r_int.start, o_int.start,
                                   r_int.open_start, o_int.open_start)
             right_int == Interval(o_int.end, r_int.end,
                                   o_int.open_end, r_int.open_end)
             lefts     == IF ~IsEmptyI(left_int)
                          THEN << [cur EXCEPT ![d] = left_int] >> ELSE <<>>
             rights    == IF ~IsEmptyI(right_int)
                          THEN << [cur EXCEPT ![d] = right_int] >> ELSE <<>>
         IN  lefts \o rights
                \o SlicesSameFlag([cur EXCEPT ![d] = o_int], ov, d + 1)

\* The slicing loop of Box.difference from dimension d on: cur is
\* current_intervals, ov the intervals of the intersection.
RECURSIVE Slices(_, _, _)
Slices(cur, ov, d) ==
    IF d > Len(cur) THEN <<>>
    ELSE LET r_int     == cur[d]
             o_int     == ov[d]
             left_int  == Interval(r_int.start, o_int.start,
                                   r_int.open_start, ~o_int.open_start)
             right_int == Interval(o_int.end, r_int.end,
                                   ~o_int.open_end, r_int.open_end)
             lefts     == IF ~IsEmptyI(left_int)
                          THEN << [cur EXCEPT ![d] = left_int] >> ELSE <<>>
             rights    == IF ~IsEmptyI(right_int)
                          THEN << [cur EXCEPT ![d] = right_int] >> ELSE <<>>
         IN  lefts \o rights \o Slices([cur EXCEPT ![d] = o_int], ov, d + 1)

DifferenceSlices(cur, ov) == Slices(cur, ov, 1)

\* the difference taken the other way round: b minus a
DifferenceOfOther(a, b) ==
    LET inter == BoxIntersection(a, b)
    IN  IF BoxIsEmpty(inter) THEN << b >> ELSE DifferenceSlices(b, inter)

BoxDifference(a, b) ==
    LET inter == BoxIntersection(a, b)
    IN  IF BoxIsEmpty(inter) THEN << a >> ELSE DifferenceSlices(a, inter)

\* float("inf"); the distances of the model are squares, never negative
Infinity == -1

\* Box.distance_to_point, squared
RECURSIVE PointGaps(_, _, _)
PointGaps(b, p, d) ==
    IF d > Len(b) THEN 0
    ELSE (IF p[d] < b[d].start THEN (b[d].start - p[d]) * (b[d].start - p[d])
          ELSE IF p[d] > b[d].end THEN (p[d] - b[d].end) * (p[d] - b[d].end)
          ELSE 0) + PointGaps(b, p, d + 1)

BoxDistanceToPoint(b, p) == IF BoxIsEmpty(b) THEN Infinity ELSE PointGaps(b, p, 1)

\* the 1-D distance of Box.distance
IntervalGap(iv, jv) ==
    IF OverlapsI(iv, jv) \/ IsAdjacentI(iv, jv) THEN 0
    ELSE IF iv.end < jv.start THEN jv.start - iv.end
    ELSE iv.start - jv.end

RECURSIVE BoxGaps(_, _, _)
BoxGaps(a, b, d) ==
    IF d > Len(a) THEN 0
    ELSE IntervalGap(a[d], b[d]) * IntervalGap(a[d], b[d]) + BoxGaps(a, b, d + 1)

\* Box.distance, squared
BoxDistance(a, b) ==
    IF BoxIsEmpty(a) \/ BoxIsEmpty(b) THEN Infinity ELSE BoxGaps(a, b, 1)

\* Box.minkowski_difference with the first dimension eroded only.
ErodeFirstDimension(a, b) ==
    IF BoxIsEmpty(a) THEN a
    ELSE IF BoxIsEmpty(b) THEN EmptyBox(BoxDimension(a))
    ELSE LET results == [d \in 1..Len(a) |->
                            IF d = 1 THEN MinkowskiDifferenceI(a[d], b[d]) ELSE a[d]]
         IN  IF \E d \in 1..Len(a) : IsEmptyI(results[d])
             THEN EmptyBox(BoxDimension(a))
             ELSE results

\* Box.minkowski_difference (Box.erode)
BoxMinkowskiDifference(a, b) ==
    IF BoxIsEmpty(a) THEN a
    ELSE IF BoxIsEmpty(b) THEN EmptyBox(BoxDimension(a))
    ELSE LET results == [d \in 1..Len(a) |-> MinkowskiDifferenceI(a[d], b[d])]
         IN  IF \E d \in 1..Len(a) : IsEmptyI(results[d])
             THEN EmptyBox(BoxDimension(a))
             ELSE results

\* the number of boxes of a list that hold the point p
CountContaining(boxes, p) ==
    Cardinality({ k \in 1..Len(boxes) : BoxContainsPoint(boxes[k], p) })

\* no two boxes of the list overlap
PairwiseDisjoint(boxes) ==
    \A k, l \in 1..Len(boxes) : k # l => ~BoxOverlaps(boxes[k], boxes[l])

(***************************************************************************)
(* RTree (src/src/spatial.py).  The nodes live in an arena: T.nodes[k] is  *)
(* node k, a child entry names a node (node # 0) or holds an item, and     *)
(* parent = 0 / mbr = NoMbr stand for None.  A node superseded by a split  *)
(* stays in the arena, unreachable from the root.                          *)
(***************************************************************************)
NoMbr == <<>>
NoItem == <<>>

NodeEntry(k) == [node |-> k, item |-> NoItem]
ItemEntry(b) == [node |-> 0, item |-> b]

\* a node that is a leaf whatever it is made for
LeafNode(leaf) ==
    [is_leaf |-> TRUE, children |-> <<>>, mbr |-> NoMbr, parent |-> 0]

RTreeNode(leaf) ==
    [is_leaf |-> leaf, children |-> <<>>, mbr |-> NoMbr, parent |-> 0]

RTree(mn, mx) ==
    [nodes |-> << RTreeNode(TRUE) >>, root |-> 1,
     min_entries |-> mn, max_entries |-> mx]

\* the callbacks BoxSet._build_index hands to the tree
GetMbr(T, e) == IF e.node # 0 THEN T.nodes[e.node].mbr ELSE e.item

ExpandMbr(m1, m2) ==
    IF m1 = NoMbr THEN m2
    ELSE [d \in 1..Len(m1) |->
            Closed(Min(m1[d].start, m2[d].start), Max(m1[d].end, m2[d].end))]

GetVolume(m) == BoxVolume(m)

OverlapsMbr(m1, m2) == BoxOverlaps(m1, m2)

\* list.remove(x): the list without its first element equal to x
RECURSIVE RemoveFirst(_, _)
RemoveFirst(seq, x) ==
    IF seq = <<>> THEN <<>>
    ELSE IF Head(seq) = x THEN Tail(seq)
    ELSE << Head(seq) >> \o RemoveFirst(Tail(seq), x)

\* add_child that leaves the parent of the child as it was
AddChildUnlinked(T, n, e, child_mbr) ==
    [T EXCEPT !.nodes[n].children = Append(@, e),
              !.nodes[n].mbr = ExpandMbr(@, child_mbr)]

AddChild(T, n, e, child_mbr) ==
    LET linked == IF e.node # 0
                  THEN [T.nodes EXCEPT ![e.node].parent = n]
                  ELSE T.nodes
    IN  [T EXCEPT !.nodes =
            [linked EXCEPT ![n].children = Append(@, e),
                           ![n].mbr = ExpandMbr(@, child_mbr)]]

RECURSIVE FoldMbr(_, _, _, _)
FoldMbr(T, ch, k, acc) ==
    IF k > Len(ch) THEN acc
    ELSE FoldMbr(T, ch, k + 1, ExpandMbr(acc, GetMbr(T, ch[k])))

\* recalculate_mbr that leaves the bound as it was
KeepMbr(T, n) == T

RecalculateMbr(T, n) ==
    [T EXCEPT !.nodes[n].mbr = FoldMbr(T, T.nodes[n].children, 1, NoMbr)]

RECURSIVE AdjustTree(_, _)
AdjustTree(T, n) ==
    LET T1 == RecalculateMbr(T, n)
    IN  IF T1.nodes[n].parent # 0 THEN AdjustTree(T1, T1.nodes[n].parent)
        ELSE T1

RECURSIVE BestChild(_, _, _, _, _, _, _)

\* a choice that takes the first child, whatever it costs
FirstNodeChild(T, ch, k, item_mbr, best, min_enl, min_area) ==
    IF ch = <<>> THEN 0 ELSE ch[1].node

\* The loop of _choose_leaf over node.children from index k on; best = 0 is
\* None (min_enlargement and min_area still infinite).
BestChild(T, ch, k, item_mbr, best, min_enl, min_area) ==
    IF k > Len(ch) THEN best
    ELSE IF ch[k].node = 0
    THEN BestChild(T, ch, k + 1, item_mbr, best, min_enl, min_area)
    ELSE LET c           == ch[k].node
             cm          == T.nodes[c].mbr
             area_before == IF cm # NoMbr THEN GetVolume(cm) ELSE 0
             area_after  == GetVolume(ExpandMbr(cm, item_mbr))
             enlargement == area_after - area_before
         IN  IF best = 0 \/ enlargement < min_enl
             THEN BestChild(T, ch, k + 1, item_mbr, c, enlargement, area_after)
             ELSE IF enlargement = min_enl
             THEN IF area_after < min_area
                  THEN BestChild(T, ch, k + 1, item_mbr, c, min_enl, area_after)
                  ELSE IF area_after = min_area
                          /\ Len(T.nodes[c].children) < Len(T.nodes[best].children)
                  THEN BestChild(T, ch, k + 1, item_mbr, c, min_enl, min_area)
                  ELSE BestChild(T, ch, k + 1, item_mbr, best, min_enl, min_area)
             ELSE BestChild(T, ch, k + 1, item_mbr, best, min_enl, min_area)

RECURSIVE ChooseLeaf(_, _, _)
ChooseLeaf(T, n, item_mbr) ==
    IF T.nodes[n].is_leaf THEN n
    ELSE LET best_child == BestChild(T, T.nodes[n].children, 1, item_mbr, 0, 0, 0)
         IN  IF best_child = 0 THEN n ELSE ChooseLeaf(T, best_child, item_mbr)

Waste(T, x, y) ==
    GetVolume(ExpandMbr(GetMbr(T, x), GetMbr(T, y)))
        - GetVolume(GetMbr(T, x)) - GetVolume(GetMbr(T, y))

\* The double loop of _pick_seeds from the pair (i, j) on; the result is the
\* pair of indices of the seeds.
RECURSIVE SeedLoop(_, _, _, _, _, _)
SeedLoop(T, ch, i, j, max_waste, seeds) ==
    CASE i > Len(ch) -> seeds
      [] i <= Len(ch) /\ j > Len(ch) ->
            SeedLoop(T, ch, i + 1, i + 2, max_waste, seeds)
      [] j <= Len(ch) /\ Waste(T, ch[i], ch[j]) > max_waste ->
            SeedLoop(T, ch, i, j + 1, Waste(T, ch[i], ch[j]), << i, j >>)
      [] OTHER -> SeedLoop(T, ch, i, j + 1, max_waste, seeds)

PickSeeds(T, ch) == SeedLoop(T, ch, 1, 2, -1, << 1, 2 >>)

Abs(x) == IF x < 0 THEN -x ELSE x

\* diff of _pick_next for a child of bound m
Diff(m, mbr1, mbr2) ==
    Abs((GetVolume(ExpandMbr(mbr1, m)) - GetVolume(mbr1))
        - (GetVolume(ExpandMbr(mbr2, m)) - GetVolume(mbr2)))

\* The loop of _pick_next from index k on; the result is the index of
\* best_child.
RECURSIVE NextLoop(_, _, _, _, _, _, _)
NextLoop(T, ch, k, mbr1, mbr2, max_diff, best) ==
    CASE k > Len(ch) -> best
      [] k <= Len(ch) /\ Diff(GetMbr(T, ch[k]), mbr1, mbr2) > max_diff ->
            NextLoop(T, ch, k + 1, mbr1, mbr2,
                     Diff(GetMbr(T, ch[k]), mbr1, mbr2), k)
      [] OTHER -> NextLoop(T, ch, k + 1, mbr1, mbr2, max_diff, best)

PickNext(T, ch, mbr1, mbr2) == NextLoop(T, ch, 1, mbr1, mbr2, -1, 1)

RECURSIVE AddChildren(_, _, _, _)
AddChildren(T, g, ch, k) ==
    IF k > Len(ch) THEN T
    ELSE AddChildren(AddChild(T, g, ch[k], GetMbr(T, ch[k])), g, ch, k + 1)

\* One round of the while loop of _split_node: child leaves node n for the
\* group it enlarges less (then the smaller group, then the one with fewer
\* children, then group 2).
Assign(T, n, g1, g2, child) ==
    LET T1       == [T EXCEPT !.nodes[n].children = RemoveFirst(@, child)]
        m1       == T1.nodes[g1].mbr
        m2       == T1.nodes[g2].mbr
        area1    == IF m1 # NoMbr THEN GetVolume(m1) ELSE 0
        area2    == IF m2 # NoMbr THEN GetVolume(m2) ELSE 0
        mbr_c    == GetMbr(T1, child)
        enlarge1 == GetVolume(ExpandMbr(m1, mbr_c)) - area1
        enlarge2 == GetVolume(ExpandMbr(m2, mbr_c)) - area2
        to1      == IF enlarge1 < enlarge2 THEN TRUE
                    ELSE IF enlarge2 < enlarge1 THEN FALSE
                    ELSE IF area1 < area2 THEN TRUE
                    ELSE IF area2 < area1 THEN FALSE
                    ELSE Len(T1.nodes[g1].children) < Len(T1.nodes[g2].children)
    IN  AddChild(T1, IF to1 THEN g1 ELSE g2, child, mbr_c)

RECURSIVE Distribute(_, _, _, _)
RECURSIVE DistributeByEnlargement(_, _, _, _)

\* a distribution that never hands the rest to a group short of min_entries
DistributeByEnlargement(T, n, g1, g2) ==
    IF T.nodes[n].children = <<>> THEN T
    ELSE DistributeByEnlargement(
            Assign(T, n, g1, g2,
                   T.nodes[n].children[PickNext(T, T.nodes[n].children,
                                                T.nodes[g1].mbr, T.nodes[g2].mbr)]),
            n, g1, g2)

\* The while loop of _split_node: hands the children left in node n to the
\* groups g1 and g2.
Distribute(T, n, g1, g2) ==
    IF T.nodes[n].children = <<>> THEN T
    ELSE IF Len(T.nodes[g1].children) + Len(T.nodes[n].children) = T.min_entries
    THEN AddChildren([T EXCEPT !.nodes[n].children = <<>>], g1, T.nodes[n].children, 1)
    ELSE IF Len(T.nodes[g2].children) + Len(T.nodes[n].children) = T.min_entries
    THEN AddChildren([T EXCEPT !.nodes[n].children = <<>>], g2, T.nodes[n].children, 1)
    ELSE Distribute(
            Assign(T, n, g1, g2,
                   T.nodes[n].children[PickNext(T, T.nodes[n].children,
                                                T.nodes[g1].mbr, T.nodes[g2].mbr)]),
            n, g1, g2)

\* group.add_child(c, get_mbr(c), expand_mbr)
AddSeed(T, g, c) == AddChild(T, g, c, GetMbr(T, c))

\* The start of _split_node: the seeds c1 and c2 leave node n and go to two
\* new nodes, the last two of the arena.
Seeded(T, n, c1, c2) ==
    AddSeed(
        AddSeed(
            [T EXCEPT !.nodes =
                [@ EXCEPT ![n].children = RemoveFirst(RemoveFirst(@, c1), c2)]
                    \o << RTreeNode(T.nodes[n].is_leaf), RTreeNode(T.nodes[n].is_leaf) >>],
            Len(T.nodes) + 1, c1),
        Len(T.nodes) + 2, c2)

\* parent.add_child(group, group.mbr, expand_mbr)
AddGroup(T, p, g) == AddChild(T, p, NodeEntry(g), T.nodes[g].mbr)

\* The split of the root: a new root over the two groups.
NewRoot(T, g1, g2) ==
    [AddGroup(AddGroup([T EXCEPT !.nodes = Append(@, RTreeNode(FALSE))],
                       Len(T.nodes) + 1, g1),
              Len(T.nodes) + 1, g2)
        EXCEPT !.root = Len(T.nodes) + 1]

\* The split of another node: the groups take its place in its parent.
ReplaceInParent(T, parent, n, g1, g2) ==
    AddGroup(AddGroup([T EXCEPT !.nodes[parent].children =
                                   RemoveFirst(@, NodeEntry(n))],
                      parent, g1),
             parent, g2)

RECURSIVE SplitNode(_, _)

\* if len(node.children) > max_entries: _split_node(node) else: _adjust_tree(node)
SplitOrAdjust(T, n) ==
    IF Len(T.nodes[n].children) > T.max_entries
    THEN SplitNode(T, n)
    ELSE AdjustTree(T, n)

\* The end of _split_node, once the children of n are in g1 and g2.
UpdateHierarchy(T, n, g1, g2) ==
    IF n = T.root THEN NewRoot(T, g1, g2)
    ELSE IF T.nodes[n].parent # 0
    THEN SplitOrAdjust(ReplaceInParent(T, T.nodes[n].parent, n, g1, g2),
                       T.nodes[n].parent)
    ELSE T

\* _split_node with the seeds picked: seeds holds their indices
SplitWith(T, n, seeds) ==
    UpdateHierarchy(
        Distribute(Seeded(T, n, T.nodes[n].children[seeds[1]],
                                T.nodes[n].children[seeds[2]]),
                   n, Len(T.nodes) + 1, Len(T.nodes) + 2),
        n, Len(T.nodes) + 1, Len(T.nodes) + 2)

SplitNode(T, n) == SplitWith(T, n, PickSeeds(T, T.nodes[n].children))

\* insert, once the leaf is chosen
InsertAt(T, leaf, item, item_mbr) ==
    SplitOrAdjust(AddChild(T, leaf, ItemEntry(item), item_mbr), leaf)

RTreeInsert(T, item) == InsertAt(T, ChooseLeaf(T, T.root, item), item, item)

RECURSIVE SearchRecursive(_, _, _)
RECURSIVE SearchChildren(_, _, _, _)

\* a search that descends into the first child only
SearchFirstChild(T, ch, k, query_mbr) ==
    IF ch = <<>> \/ ch[1].node = 0 THEN <<>>
    ELSE SearchRecursive(T, ch[1].node, query_mbr)

SearchChildren(T, ch, k, query_mbr) ==
    IF k > Len(ch) THEN <<>>
    ELSE (IF ch[k].node # 0 THEN SearchRecursive(T, ch[k].node, query_mbr) ELSE <<>>)
            \o SearchChildren(T, ch, k + 1, query_mbr)

SearchRecursive(T, n, query_mbr) ==
    LET node == T.nodes[n]
    IN  IF node.mbr = NoMbr \/ ~OverlapsMbr(node.mbr, query_mbr) THEN <<>>
        ELSE IF node.is_leaf
        THEN SelectSeq([k \in 1..Len(node.children) |-> node.children[k].item],
                       LAMBDA it : OverlapsMbr(it, query_mbr))
        ELSE SearchChildren(T, node.children, 1, query_mbr)

\* a search that finds nothing
SearchNothing(T, query_mbr) == <<>>

RTreeSearch(T, query_mbr) ==
    IF T.nodes[T.root].mbr = NoMbr THEN <<>>
    ELSE SearchRecursive(T, T.root, query_mbr)

(***************************************************************************)
(* BoxSet (src/src/multidimensional.py): the list of boxes, the dimension  *)
(* (0 is None) and the spatial index (NoIndex is None).                    *)
(***************************************************************************)
NoIndex == <<>>

EmptyBoxSet == [boxes |-> <<>>, dimension |-> 0, index |-> NoIndex]

\* FragmentAgainst without the cut: an overlapping fragment is kept whole.
RECURSIVE FragmentKeepWhole(_, _, _)
FragmentKeepWhole(fragments, existing, k) ==
    IF k > Len(fragments) THEN <<>>
    ELSE << fragments[k] >> \o FragmentKeepWhole(fragments, existing, k + 1)

\* The inner loop of add (and of difference): every fragment that overlaps
\* `existing` is replaced by its difference with it.
RECURSIVE FragmentAgainst(_, _, _)
FragmentAgainst(fragments, existing, k) ==
    IF k > Len(fragments) THEN <<>>
    ELSE (IF BoxOverlaps(fragments[k], existing)
          THEN BoxDifference(fragments[k], existing)
          ELSE << fragments[k] >>)
            \o FragmentAgainst(fragments, existing, k + 1)

\* The outer loop of add over search_target from index k on.
RECURSIVE FragmentLoop(_, _, _)
FragmentLoop(fragments, search_target, k) ==
    IF k > Len(search_target) \/ fragments = <<>> THEN fragments
    ELSE FragmentLoop(FragmentAgainst(fragments, search_target[k], 1),
                      search_target, k + 1)

\* The loop of _build_index over self._boxes from index k on.
RECURSIVE InsertAll(_, _)
InsertAll(S, k) ==
    IF k > Len(S.boxes) THEN S
    ELSE InsertAll([S EXCEPT !.index = RTreeInsert(@, S.boxes[k])], k + 1)

\* a _build_index that builds nothing
KeepUnindexed(S) == S

BuildIndex(S) ==
    IF S.boxes = <<>> THEN S
    ELSE InsertAll([S EXCEPT !.index = RTree(DefaultMinEntries, DefaultMaxEntries)], 1)

RECURSIVE AppendFragments(_, _, _)

\* the last loop of add without the insert into an index that is there
AppendUnindexed(S, fragments, k) ==
    IF k > Len(fragments) THEN S
    ELSE IF S.index = NoIndex /\ Len(S.boxes) + 1 > IndexThreshold
    THEN AppendFragments(BuildIndex([S EXCEPT !.boxes = Append(@, fragments[k])]),
                         fragments, k + 1)
    ELSE AppendFragments([S EXCEPT !.boxes = Append(@, fragments[k])],
                         fragments, k + 1)

\* The last loop of add from fragment k on: append the fragment, then insert
\* it into the index or, without an index, build one once the set holds more
\* than IndexThreshold boxes.
AppendFragments(S, fragments, k) ==
    IF k > Len(fragments) THEN S
    ELSE IF S.index # NoIndex
    THEN AppendFragments([S EXCEPT !.boxes = Append(@, fragments[k]),
                                   !.index = RTreeInsert(@, fragments[k])],
                         fragments, k + 1)
    ELSE IF Len(S.boxes) + 1 > IndexThreshold
    THEN AppendFragments(BuildIndex([S EXCEPT !.boxes = Append(@, fragments[k])]),
                         fragments, k + 1)
    ELSE AppendFragments([S EXCEPT !.boxes = Append(@, fragments[k])],
                         fragments, k + 1)

\* AddRaises with the dimension check ahead of the emptiness check
RaisesBeforeEmptyCheck(S, box) ==
    S.dimension # 0 /\ S.dimension # BoxDimension(box)

\* add raises ValueError: the set's dimension is fixed and the box has another
AddRaises(S, box) ==
    ~BoxIsEmpty(box) /\ S.dimension # 0 /\ S.dimension # BoxDimension(box)

SearchTarget(S, box) ==
    IF S.index # NoIndex THEN RTreeSearch(S.index, box) ELSE S.boxes

\* Add that takes the box's dimension before it checks it
AddDimensionFirst(S, box) ==
    IF BoxIsEmpty(box) THEN S
    ELSE IF AddRaises(S, box) THEN [S EXCEPT !.dimension = BoxDimension(box)]
    ELSE AppendFragments([S EXCEPT !.dimension = BoxDimension(box)],
                         FragmentLoop(<< box >>, SearchTarget(S, box), 1), 1)

\* BoxSet.add(box) for a Box; a raising call leaves the set as it was.
Add(S, box) ==
    IF BoxIsEmpty(box) \/ AddRaises(S, box) THEN S
    ELSE LET S1        == [S EXCEPT !.dimension = BoxDimension(box)]
             fragments == FragmentLoop(<< box >>, SearchTarget(S, box), 1)
         IN  AppendFragments(S1, fragments, 1)

\* BoxSet.add(item) for a BoxSet item, and BoxSet(boxes): the adds from
\* boxes[k] on; an add that raises ends the loop.
RECURSIVE AddAll(_, _, _)
AddAll(S, boxes, k) ==
    IF k > Len(boxes) \/ AddRaises(S, boxes[k]) THEN S
    ELSE AddAll(Add(S, boxes[k]), boxes, k + 1)

\* one of these adds raises
RECURSIVE AddAllRaises(_, _, _)
AddAllRaises(S, boxes, k) ==
    IF k > Len(boxes) THEN FALSE
    ELSE IF AddRaises(S, boxes[k]) THEN TRUE
    ELSE AddAllRaises(Add(S, boxes[k]), boxes, k + 1)

BoxSetOf(boxes) == AddAll(EmptyBoxSet, boxes, 1)

\* The argument of add: a Box, a BoxSet, an Interval or something else.
Item(kind, v) ==
    [kind     |-> kind,
     box      |-> IF kind = "Box" THEN v ELSE <<>>,
     interval |-> IF kind = "Interval" THEN v ELSE EmptyInterval,
     set      |-> IF kind = "BoxSet" THEN v ELSE EmptyBoxSet]

\* add raises: ValueError from the add of a box, TypeError for an item that
\* is no Box, BoxSet or Interval
AddItemRaises(S, item) ==
    CASE item.kind = "BoxSet" -> AddAllRaises(S, item.set.boxes, 1)
      [] item.kind = "Interval" -> AddRaises(S, << item.interval >>)
      [] item.kind = "Box" -> AddRaises(S, item.box)
      [] OTHER -> TRUE

\* BoxSet.add(item)
AddItem(S, item) ==
    CASE item.kind = "BoxSet" -> AddAll(S, item.set.boxes, 1)
      [] item.kind = "Interval" -> Add(S, << item.interval >>)
      [] item.kind = "Box" -> Add(S, item.box)
      [] OTHER -> S

IsEmptySet(S) == S.boxes = <<>>

RECURSIVE SumVolumes(_, _)
SumVolumes(boxes, k) ==
    IF k > Len(boxes) THEN 0 ELSE BoxVolume(boxes[k]) + SumVolumes(boxes, k + 1)

Volume(S) == SumVolumes(S.boxes, 1)

\* BoxSet.contains(point)
ContainsPoint(S, p) ==
    IF S.dimension = 0 THEN FALSE
    ELSE LET search_target ==
                 IF S.index # NoIndex
                 THEN RTreeSearch(S.index, [d \in 1..Len(p) |-> Closed(p[d], p[d])])
                 ELSE S.boxes
         IN  \E k \in 1..Len(search_target) : BoxContainsPoint(search_target[k], p)

\* intersection and difference raise ValueError on sets of two dimensions
DimensionMismatch(A, B) ==
    A.dimension # 0 /\ B.dimension # 0 /\ A.dimension # B.dimension

\* an intersection that finds no overlapping pair
NoIntersections(as, bs, i, j) == <<>>

RECURSIVE PairIntersections(_, _, _, _)
PairIntersections(as, bs, i, j) ==
    IF i > Len(as) THEN <<>>
    ELSE IF j > Len(bs) THEN PairIntersections(as, bs, i + 1, 1)
    ELSE (IF BoxOverlaps(as[i], bs[j])
          THEN << BoxIntersection(as[i], bs[j]) >> ELSE <<>>)
            \o PairIntersections(as, bs, i, j + 1)

Intersection(A, B) == BoxSetOf(PairIntersections(A.boxes, B.boxes, 1, 1))

\* The loop of difference over other.boxes for one box of self.
RECURSIVE ChopLoop(_, _, _)
ChopLoop(current_fragments, bs, k) ==
    IF k > Len(bs) THEN current_fragments
    ELSE LET next_fragments == FragmentAgainst(current_fragments, bs[k], 1)
         IN  IF next_fragments = <<>> THEN <<>>
             ELSE ChopLoop(next_fragments, bs, k + 1)

RECURSIVE FinalBoxes(_, _, _)
FinalBoxes(as, bs, i) ==
    IF i > Len(as) THEN <<>>
    ELSE ChopLoop(<< as[i] >>, bs, 1) \o FinalBoxes(as, bs, i + 1)

Difference(A, B) == BoxSetOf(FinalBoxes(A.boxes, B.boxes, 1))

Union(A, B) == AddAll(BoxSetOf(A.boxes), B.boxes, 1)

SymmetricDifference(A, B) == Union(Difference(A, B), Difference(B, A))

\* The operators with a Box operand: union hands it to add, the others
\* promote it to BoxSet([box]).
UnionBox(A, box) == Add(BoxSetOf(A.boxes), box)
IntersectionBox(A, box) == Intersection(A, BoxSetOf(<< box >>))
DifferenceBox(A, box) == Difference(A, BoxSetOf(<< box >>))
SymmetricDifferenceBox(A, box) == SymmetricDifference(A, BoxSetOf(<< box >>))

\* A set operation by name; the operand b is a BoxSet or a bare Box (isBox).
Apply(op, S, b) ==
    CASE op = "union" ->
            IF b.isBox THEN UnionBox(S, b.v) ELSE Union(S, b.v)
      [] op = "intersection" ->
            IF b.isBox THEN IntersectionBox(S, b.v) ELSE Intersection(S, b.v)
      [] op = "difference" ->
            IF b.isBox THEN DifferenceBox(S, b.v) ELSE Difference(S, b.v)
      [] op = "symmetric_difference" ->
            IF b.isBox THEN SymmetricDifferenceBox(S, b.v)
            ELSE SymmetricDifference(S, b.v)

\* equality of the lists of boxes
SameBoxes(A, B) == A.boxes = B.boxes

\* BoxSet.__eq__
Equals(A, B) ==
    IF IsEmptySet(A) /\ IsEmptySet(B) THEN TRUE
    ELSE IF A.dimension # B.dimension THEN FALSE
    ELSE IsEmptySet(Difference(A, B)) /\ IsEmptySet(Difference(B, A))

\* BoxSet.minkowski_difference with a Box: the non-empty erosions of the
\* boxes of the set
RECURSIVE ErodedBoxes(_, _, _)
ErodedBoxes(S, box, k) ==
    IF k > Len(S.boxes) THEN <<>>
    ELSE (IF BoxIsEmpty(BoxMinkowskiDifference(S.boxes[k], box)) THEN <<>>
          ELSE << BoxMinkowskiDifference(S.boxes[k], box) >>)
            \o ErodedBoxes(S, box, k + 1)

MinkowskiDifferenceBox(S, box) ==
    IF IsEmptySet(S) THEN S
    ELSE IF BoxIsEmpty(box) THEN EmptyBoxSet
    ELSE BoxSetOf(ErodedBoxes(S, box, 1))

\* BoxSet.minkowski_difference with a BoxSet: the loop over other.boxes
RECURSIVE ErodeLoop(_, _, _, _)
ErodeLoop(S, boxes, k, current_res) ==
    IF k > Len(boxes) \/ IsEmptySet(current_res) THEN current_res
    ELSE ErodeLoop(S, boxes, k + 1,
                   Intersection(current_res, MinkowskiDifferenceBox(S, boxes[k])))

MinkowskiDifference(S, other) ==
    IF IsEmptySet(S) THEN S
    ELSE IF IsEmptySet(other) THEN EmptyBoxSet
    ELSE ErodeLoop(S, other.boxes, 1, S)

\* the erosions of S by each of boxes[k..], intersected
RECURSIVE ErosionsMeet(_, _, _)
ErosionsMeet(S, boxes, k) ==
    IF k = Len(boxes) THEN MinkowskiDifferenceBox(S, boxes[k])
    ELSE Intersection(MinkowskiDifferenceBox(S, boxes[k]),
                      ErosionsMeet(S, boxes, k + 1))

\* connected_components with the boxes themselves, not their closures,
\* tested for overlap.
OverlapUnclosed(S, i, j) ==
    \A k \in 1..S.dimension : OverlapsI(S.boxes[i][k], S.boxes[j][k])

\* connected_components: is_adj, the closures of boxes i and j overlap in
\* all dimensions
IsAdj(S, i, j) ==
    \A k \in 1..S.dimension :
        OverlapsI(ClosureI(S.boxes[i][k]), ClosureI(S.boxes[j][k]))

\* the loop over adj[curr], which lists the neighbours in increasing order:
\* the unvisited ones are marked and pushed
RECURSIVE PushNeighbours(_, _, _, _)
PushNeighbours(S, curr, j, w) ==
    IF j > Len(S.boxes) THEN w
    ELSE IF j # curr /\ IsAdj(S, curr, j) /\ ~w.visited[j]
    THEN PushNeighbours(S, curr, j + 1,
                        [w EXCEPT !.visited[j] = TRUE, !.stack = Append(@, j)])
    ELSE PushNeighbours(S, curr, j + 1, w)

\* the while loop: pop, record, push the neighbours
RECURSIVE Walk(_, _)
Walk(S, w) ==
    IF w.stack = <<>> THEN w
    ELSE Walk(S, PushNeighbours(S, w.stack[Len(w.stack)], 1,
                                [w EXCEPT !.stack = SubSeq(@, 1, Len(@) - 1),
                                          !.comp_indices =
                                              Append(@, w.stack[Len(w.stack)])]))

\* the loop over the roots; w.components collects the BoxSets
RECURSIVE Roots(_, _, _)
Roots(S, root, w) ==
    IF root > Len(S.boxes) THEN w.components
    ELSE IF w.visited[root] THEN Roots(S, root + 1, w)
    ELSE LET done == Walk(S, [w EXCEPT !.visited[root] = TRUE,
                                       !.stack = << root >>,
                                       !.comp_indices = <<>>])
         IN  Roots(S, root + 1,
                   [done EXCEPT !.components =
                       Append(@, BoxSetOf([k \in 1..Len(done.comp_indices) |->
                                              S.boxes[done.comp_indices[k]]]))])

ConnectedComponents(S) ==
    IF IsEmptySet(S) \/ S.dimension = 0 THEN <<>>
    ELSE Roots(S, 1, [visited |-> [k \in 1..Len(S.boxes) |-> FALSE],
                      stack |-> <<>>, comp_indices |-> <<>>, components |-> <<>>])

IsConnected(S) ==
    IF IsEmptySet(S) \/ Len(S.boxes) <= 1 THEN TRUE
    ELSE Len(ConnectedComponents(S)) = 1

(***************************************************************************)
(* The BoxSet-returning operations as calls on objects: what a call        *)
(* returns is the receiver itself ("self"), the operand itself ("other")   *)
(* or a BoxSet constructed by the call ("new"), and its value.             *)
(***************************************************************************)
Returned(ref, S) == [ref |-> ref, set |-> S]

\* the second call of a chain a.f().g(): its receiver is what f returned
Then(r1, r2) == IF r2.ref = "self" THEN Returned(r1.ref, r2.set) ELSE r2

BoxInterior(b) == IF BoxIsEmpty(b) THEN b ELSE [d \in 1..Len(b) |-> InteriorI(b[d])]

BoxClosure(b) == IF BoxIsEmpty(b) THEN b ELSE [d \in 1..Len(b) |-> ClosureI(b[d])]

\* Box.minkowski_sum(other) for a Box of the same dimension
BoxMinkowskiSum(a, b) ==
    IF BoxIsEmpty(a) THEN a
    ELSE IF BoxIsEmpty(b) THEN b
    ELSE [d \in 1..Len(a) |-> MinkowskiSumI(a[d], b[d])]

SetInterior(S) ==
    IF IsEmptySet(S) THEN Returned("self", S)
    ELSE Returned("new", BoxSetOf([k \in 1..Len(S.boxes) |-> BoxInterior(S.boxes[k])]))

SetClosure(S) ==
    IF IsEmptySet(S) THEN Returned("self", S)
    ELSE Returned("new", BoxSetOf([k \in 1..Len(S.boxes) |-> BoxClosure(S.boxes[k])]))

SetBoundary(S) ==
    IF IsEmptySet(S) THEN Returned("self", S)
    ELSE Returned("new", Difference(SetClosure(S).set, SetInterior(S).set))

\* the pairwise sums of minkowski_sum from the pair (i, j) on
RECURSIVE PairSums(_, _, _, _)
PairSums(as, bs, i, j) ==
    IF i > Len(as) THEN <<>>
    ELSE IF j > Len(bs) THEN PairSums(as, bs, i + 1, 1)
    ELSE << BoxMinkowskiSum(as[i], bs[j]) >> \o PairSums(as, bs, i, j + 1)

\* BoxSet.minkowski_sum(other) and its alias dilate, for a BoxSet other
Dilate(S, other) ==
    IF IsEmptySet(S) THEN Returned("self", S)
    ELSE IF IsEmptySet(other) THEN Returned("other", other)
    ELSE Returned("new", BoxSetOf(PairSums(S.boxes, other.boxes, 1, 1)))

\* BoxSet.minkowski_difference(other) and its alias erode, for a BoxSet other
Erode(S, other) ==
    IF IsEmptySet(S) THEN Returned("self", S)
    ELSE Returned("new", MinkowskiDifference(S, other))

\* a BoxSet promoted from a Box operand is the call's own
Promoted(r) == IF r.ref = "other" THEN Returned("new", r.set) ELSE r

\* dilate_epsilon(epsilon): dilate by the box [-epsilon, epsilon]^dim
DilateEpsilon(S, epsilon) ==
    IF epsilon = 0 THEN Returned("self", S)
    ELSE Promoted(Dilate(S, BoxSetOf(<< [d \in 1..(IF S.dimension # 0 THEN S.dimension ELSE 1)
                                          |-> Closed(-epsilon, epsilon)] >>)))

\* r.dilate(other) and r.erode(other) on what an earlier call returned
ThenDilate(r, other) == Then(r, Dilate(r.set, other))
ThenErode(r, other) == Then(r, Erode(r.set, other))

Opening(S, other) == ThenDilate(Erode(S, other), other)

Closing(S, other) == ThenErode(Dilate(S, other), other)

\* a BoxSet-returning operation by name
Operation(op, S, other, epsilon) ==
    CASE op = "union" -> Returned("new", Union(S, other))
      [] op = "intersection" -> Returned("new", Intersection(S, other))
      [] op = "difference" -> Returned("new", Difference(S, other))
      [] op = "symmetric_difference" -> Returned("new", SymmetricDifference(S, other))
      [] op = "interior" -> SetInterior(S)
      [] op = "closure" -> SetClosure(S)
      [] op = "boundary" -> SetBoundary(S)
      [] op = "minkowski_sum" -> Dilate(S, other)
      [] op = "minkowski_difference" -> Erode(S, other)
      [] op = "dilate_epsilon" -> DilateEpsilon(S, epsilon)
      [] op = "opening" -> Opening(S, other)
      [] op = "closing" -> Closing(S, other)

(***************************************************************************)
(* Inputs: the intervals and boxes with endpoints in cs, and the points    *)
(* that tell the boxes with even endpoints up to 2m apart.                 *)
(***************************************************************************)
Even(m) == { 2 * k : k \in 0..m }

IntervalsOver(cs) ==
    { i \in [start : cs, end : cs, open_start : BOOLEAN, open_end : BOOLEAN] :
          ~IsEmptyI(i) }

Boxes2(ivs) == { << i, j >> : i \in ivs, j \in ivs }

Points2(m) == { << x, y >> : x \in 0..(2 * m), y \in 0..(2 * m) }

VARIABLES
    A, B, last, calls,         \* Spec: two BoxSets, the last call on A, the calls made
    boxA, boxB, frags,         \* SpecBox: the operands and the result of Box.difference
    pc,                        \* what is being run: "sets", "index", "tree", or the
                               \* step of SpecBox
    tree, inserted             \* SpecRTree: an RTree and the items inserted so far

setVars == << A, B, last, calls >>
boxVars == << boxA, boxB, frags >>
treeVars == << tree, inserted >>

vars == << A, B, last, calls, boxA, boxB, frags, pc, tree, inserted >>

\* the variables a specification does not use
IdleSets == A = <<>> /\ B = <<>> /\ last = <<>> /\ calls = <<>>
IdleBox == boxA = <<>> /\ boxB = <<>> /\ frags = <<>>
IdleTree == tree = <<>> /\ inserted = <<>>

(***************************************************************************)
(* Spec: BoxSets of 2-D boxes under add, union, intersection, difference   *)
(* and symmetric_difference.  A is the set the calls are made on; B is the *)
(* operand, a BoxSet built by add or a bare Box (isBox).  last records the *)
(* last call on A: its name, A before the call and the argument.           *)
(***************************************************************************)
\* the intervals of the boxes fed in: [0, 2], (0, 2) and the point 0; the
\* half-open intervals and the point 2 come up as fragments
SetIntervals == { Closed(0, 2), Interval(0, 2, TRUE, TRUE), Closed(0, 0) }

SetBoxes == Boxes2(SetIntervals) \cup { EmptyBox(2) }

SetPoints == { << x, y >> : x \in 0..2, y \in 0..2 }

Operand(isBox, v) == [isBox |-> isBox, v |-> v]

\* the operand as the BoxSet the operators promote it to
Promote(b) == IF b.isBox THEN BoxSetOf(<< b.v >>) ELSE b.v

Init ==
    /\ A = EmptyBoxSet
    /\ B = Operand(FALSE, EmptyBoxSet)
    /\ last = [op |-> "new", pre |-> EmptyBoxSet, arg |-> <<>>]
    /\ calls = [addA |-> 0, addB |-> 0, ops |-> 0]
    /\ pc = "sets"
    /\ IdleBox
    /\ IdleTree

AddA(box) ==
    /\ pc = "sets"
    /\ calls.addA < MaxAdds
    /\ ~AddRaises(A, box)
    /\ A' = Add(A, box)
    /\ last' = [op |-> "add", pre |-> A, arg |-> box]
    /\ calls' = [calls EXCEPT !.addA = @ + 1]
    /\ UNCHANGED << B, pc, boxVars, treeVars >>

\* B is built while a set operation is still to come
AddB(box) ==
    /\ pc = "sets"
    /\ calls.addB < MaxAdds
    /\ calls.ops < MaxOps
    /\ ~B.isBox
    /\ ~AddRaises(B.v, box)
    /\ B' = Operand(FALSE, Add(B.v, box))
    /\ calls' = [calls EXCEPT !.addB = @ + 1]
    /\ UNCHANGED << A, last, pc, boxVars, treeVars >>

\* the operand of the next calls is a bare Box
TakeBox(box) ==
    /\ pc = "sets"
    /\ calls.addB = 0
    /\ calls.ops < MaxOps
    /\ ~B.isBox
    /\ B' = Operand(TRUE, box)
    /\ calls' = [calls EXCEPT !.addB = MaxAdds]
    /\ UNCHANGED << A, last, pc, boxVars, treeVars >>

Call(op) ==
    /\ pc = "sets"
    /\ calls.ops < MaxOps
    /\ ~DimensionMismatch(A, Promote(B))
    /\ A' = Apply(op, A, B)
    /\ last' = [op |-> op, pre |-> A, arg |-> B]
    /\ calls' = [calls EXCEPT !.ops = @ + 1]
    /\ UNCHANGED << B, pc, boxVars, treeVars >>

CallUnion == Call("union")
CallIntersection == Call("intersection")
CallDifference == Call("difference")
CallSymmetricDifference == Call("symmetric_difference")

Next ==
    \/ \E box \in SetBoxes : AddA(box)
    \/ \E box \in SetBoxes : AddB(box)
    \/ \E box \in SetBoxes : TakeBox(box)
    \/ CallUnion
    \/ CallIntersection
    \/ CallDifference
    \/ CallSymmetricDifference

Spec == Init /\ [][Next]_vars

\* C1: every BoxSet produced by add, union, intersection and difference has
\* pairwise non-overlapping boxes.
C1_Disjoint ==
    /\ PairwiseDisjoint(A.boxes)
    /\ ~B.isBox => PairwiseDisjoint(B.v.boxes)

\* C1 witness: a set operation and then an add that was cut into fragments.
C1_Witness ==
    /\ calls.ops > 0
    /\ last.op = "add"
    /\ Len(last.pre.boxes) >= 2
    /\ Len(A.boxes) >= Len(last.pre.boxes) + 2

\* the operand b holds the point p
InOperand(b, p) ==
    IF b.isBox THEN BoxContainsPoint(b.v, p) ELSE ContainsPoint(b.v, p)

\* every point of the box lies in the set
Covered(box, S) ==
    \A p \in SetPoints : BoxContainsPoint(box, p) => ContainsPoint(S, p)

\* C3: after add(box) the set holds exactly the points it held before and
\* those of the box; an empty or covered box leaves the boxes as they were.
C3_AddRegion ==
    last.op = "add" =>
        /\ \A p \in SetPoints :
              ContainsPoint(A, p) <=>
                 (ContainsPoint(last.pre, p) \/ BoxContainsPoint(last.arg, p))
        /\ (BoxIsEmpty(last.arg) \/ Covered(last.arg, last.pre))
              => A.boxes = last.pre.boxes

\* C3 witness: an add onto a set of two boxes that appended two fragments.
C3_Witness ==
    /\ last.op = "add"
    /\ Len(last.pre.boxes) = 2
    /\ Len(A.boxes) = 4

\* C4: union, intersection, difference and symmetric_difference hold the
\* points that are in either, both, the first only, exactly one of the
\* operands; a Box operand gives what BoxSet([box]) gives.
C4_SetOperations ==
    last.op \in { "union", "intersection", "difference", "symmetric_difference" } =>
        /\ \A p \in SetPoints :
              LET inA == ContainsPoint(last.pre, p)
                  inB == InOperand(last.arg, p)
              IN  ContainsPoint(A, p) <=>
                     CASE last.op = "union" -> inA \/ inB
                       [] last.op = "intersection" -> inA /\ inB
                       [] last.op = "difference" -> inA /\ ~inB
                       [] last.op = "symmetric_difference" -> inA # inB
        /\ last.arg.isBox =>
              A = Apply(last.op, last.pre, Operand(FALSE, BoxSetOf(<< last.arg.v >>)))

\* C4 witness: a symmetric difference of two sets of two boxes each that
\* share some points and not others.
C4_Witness ==
    /\ last.op = "symmetric_difference"
    /\ ~last.arg.isBox
    /\ Len(last.pre.boxes) >= 2
    /\ Len(last.arg.v.boxes) >= 2
    /\ ~IsEmptySet(Intersection(last.pre, last.arg.v))
    /\ Len(A.boxes) >= 2

\* C8: (A - B) | (A & B) == A.
C8_RoundTrip ==
    last.op = "difference" =>
        Equals(Union(A, Intersection(last.pre, Promote(last.arg))), last.pre)

\* C8 witness: a difference that took part of A away and left part of it.
C8_Witness ==
    /\ last.op = "difference"
    /\ ~IsEmptySet(A)
    /\ ~IsEmptySet(Intersection(last.pre, Promote(last.arg)))
    /\ Len(A.boxes) # Len(last.pre.boxes)

\* C10: A == B iff A and B hold the same points.
C10_EqualsIsSameRegion ==
    ~B.isBox =>
        (Equals(A, B.v) <=>
            \A p \in SetPoints : ContainsPoint(A, p) <=> ContainsPoint(B.v, p))

\* C10 witness: two sets built by two adds each that are equal though they
\* are cut into different numbers of boxes.
C10_Witness ==
    /\ ~B.isBox
    /\ calls.addA = 2 /\ calls.addB = 2 /\ calls.ops = 0
    /\ Equals(A, B.v)
    /\ Len(A.boxes) # Len(B.v.boxes)
    /\ Len(A.boxes) > 1

(***************************************************************************)
(* SpecVolume: the calls of Spec on closed boxes with endpoints 0, 3, 5, 8 *)
(* (the boxes of test_init_normalizes_overlap among them).                 *)
(***************************************************************************)
VolumeIntervals == { Closed(0, 5), Closed(3, 8), Closed(0, 3) }

VolumeBoxes == Boxes2(VolumeIntervals)

Box05 == << Closed(0, 5), Closed(0, 5) >>
Box38 == << Closed(3, 8), Closed(3, 8) >>

NextVolume ==
    \/ \E box \in VolumeBoxes : AddA(box)
    \/ \E box \in VolumeBoxes : AddB(box)
    \/ \E box \in VolumeBoxes : TakeBox(box)
    \/ CallUnion
    \/ CallIntersection
    \/ CallDifference
    \/ CallSymmetricDifference

SpecVolume == Init /\ [][NextVolume]_vars

\* C9: volume() is the sum of the volumes of the boxes; the volume of a
\* union is the sum of the operands' volumes less the volume of their
\* intersection; BoxSet([[0,5]x[0,5], [3,8]x[3,8]]) has volume 46.
C9_VolumeAdditive ==
    /\ Volume(A) = SumVolumes(A.boxes, 1)
    /\ last.op = "union" =>
          Volume(A) = Volume(last.pre) + Volume(Promote(last.arg))
                         - Volume(Intersection(last.pre, Promote(last.arg)))
    /\ A = BoxSetOf(<< Box05, Box38 >>) => Volume(A) = 46

\* C9 witness: the union of [0,5]x[0,5] and [3,8]x[3,8], of volume 46.
C9_Witness ==
    /\ last.op = "union"
    /\ last.pre = BoxSetOf(<< Box05 >>)
    /\ Promote(last.arg) = BoxSetOf(<< Box38 >>)
    /\ Len(A.boxes) > 2
    /\ Volume(A) = 46

(***************************************************************************)
(* SpecIndex: adds to a BoxSet until it holds enough boxes for the index   *)
(* to be built, and further adds once it is there, A; and the same adds to *)
(* a BoxSet that never has an index, B.  The first nine adds lay out the   *)
(* squares (2i, 2i+2] x (2j, 2j+2] row by row, each of them open or closed *)
(* below and to the left; the adds after them take any box of IndexBoxes.  *)
(***************************************************************************)
\* BoxSet.add(box) as it runs while there is no index
AddLinear(S, box) ==
    IF BoxIsEmpty(box) \/ AddRaises(S, box) THEN S
    ELSE [S EXCEPT !.dimension = BoxDimension(box),
                   !.boxes = @ \o FragmentLoop(<< box >>, S.boxes, 1)]

Square(k, open) ==
    << Interval(2 * ((k - 1) % 3), 2 * ((k - 1) % 3) + 2, open, FALSE),
       Interval(2 * ((k - 1) \div 3), 2 * ((k - 1) \div 3) + 2, open, FALSE) >>

IndexIntervals == { Closed(0, 6), Closed(2, 4), Closed(4, 4) }

IndexBoxes == Boxes2(IndexIntervals)

\* the boxes the k-th add chooses from
Offered(k) ==
    IF k <= 9 THEN { Square(k, open) : open \in BOOLEAN } ELSE IndexBoxes

IndexPoints == Points2(3)

InitIndex ==
    /\ A = EmptyBoxSet
    /\ B = Operand(FALSE, EmptyBoxSet)
    /\ last = [op |-> "new", pre |-> EmptyBoxSet, arg |-> <<>>]
    /\ calls = [addA |-> 0, addB |-> 0, ops |-> 0]
    /\ pc = "index"
    /\ IdleBox
    /\ IdleTree

AddIndexed(box) ==
    /\ pc = "index"
    /\ calls.addA < MaxIndexAdds
    /\ ~AddRaises(A, box)
    /\ A' = Add(A, box)
    /\ B' = Operand(FALSE, AddLinear(B.v, box))
    /\ last' = [op |-> "add", pre |-> A, arg |-> box]
    /\ calls' = [calls EXCEPT !.addA = @ + 1, !.addB = @ + 1]
    /\ UNCHANGED << pc, boxVars, treeVars >>

NextIndex == \E box \in Offered(calls.addA + 1) : AddIndexed(box)

SpecIndex == InitIndex /\ [][NextIndex]_vars

\* C7: the set with the index and the set scanned linearly hold the same
\* points, and contains(point) answers the same in both.
C7_IndexedAsLinear ==
    pc = "index" =>
        \A p \in IndexPoints :
            /\ CountContaining(A.boxes, p) > 0 <=> CountContaining(B.v.boxes, p) > 0
            /\ ContainsPoint(A, p) <=> ContainsPoint(B.v, p)

\* C7 witness: an add that searched the index and appended fragments.
C7_Witness ==
    /\ pc = "index"
    /\ last.op = "add"
    /\ last.pre.index # NoIndex
    /\ Len(A.boxes) > Len(last.pre.boxes)
    /\ \E p \in IndexPoints : ContainsPoint(A, p) /\ ~ContainsPoint(last.pre, p)
    /\ \E p \in IndexPoints : ~ContainsPoint(A, p)

(***************************************************************************)
(* SpecItems: adds of Boxes of one and two dimensions, empty ones among    *)
(* them, of Intervals, of BoxSets and of a string to one BoxSet, A.  last  *)
(* records whether the call raised.                                        *)
(***************************************************************************)
ItemBoxes ==
    { << Closed(0, 2) >>, << Closed(1, 3) >>, EmptyBox(1),
      << Closed(0, 2), Closed(0, 2) >>, << Closed(1, 3), Closed(1, 3) >>,
      EmptyBox(2) }

ItemIntervals == { Closed(0, 2), Closed(2, 4) }

ItemSets ==
    { EmptyBoxSet,
      BoxSetOf(<< << Closed(0, 1) >>, << Closed(2, 3) >> >>),
      BoxSetOf(<< << Closed(1, 2) >> >>),
      BoxSetOf(<< << Closed(-1, 0) >>, << Closed(1, 2) >> >>),
      BoxSetOf(<< << Closed(0, 2), Closed(0, 2) >>,
                  << Closed(1, 3), Closed(1, 3) >> >>) }

InitItems ==
    /\ A = EmptyBoxSet
    /\ B = Operand(FALSE, EmptyBoxSet)
    /\ last = [op |-> "new", pre |-> EmptyBoxSet, arg |-> <<>>, raised |-> FALSE]
    /\ calls = [addA |-> 0, addB |-> 0, ops |-> 0]
    /\ pc = "items"
    /\ IdleBox
    /\ IdleTree

AddAny(item) ==
    /\ pc = "items"
    /\ calls.addA < MaxItemAdds
    /\ A' = AddItem(A, item)
    /\ last' = [op |-> "add", pre |-> A, arg |-> item,
                raised |-> AddItemRaises(A, item)]
    /\ calls' = [calls EXCEPT !.addA = @ + 1]
    /\ frags' = <<>>
    /\ UNCHANGED << B, pc, boxA, boxB, treeVars >>

\* A.minkowski_difference(other), other a Box or a BoxSet; it raises where
\* Box.minkowski_difference does, on non-empty boxes of different dimensions
ErodeAny(item) ==
    LET other  == IF item.kind = "Box" THEN BoxSetOf(<< item.box >>) ELSE item.set
        raised == /\ ~IsEmptySet(A)
                  /\ ~IsEmptySet(other)
                  /\ other.dimension # A.dimension
    IN  /\ pc = "items"
        /\ calls.ops < MaxOps
        /\ A' = IF raised THEN A
                ELSE IF item.kind = "Box" THEN MinkowskiDifferenceBox(A, item.box)
                ELSE MinkowskiDifference(A, item.set)
        /\ last' = [op |-> "minkowski_difference", pre |-> A, arg |-> item,
                    raised |-> raised]
        /\ calls' = [calls EXCEPT !.ops = @ + 1]
        /\ frags' = <<>>
        /\ UNCHANGED << B, pc, boxA, boxB, treeVars >>

\* A.connected_components() and A.is_connected(); frags takes the answers
AskComponents ==
    /\ pc = "items"
    /\ last.op # "connected_components"
    /\ frags' = [components |-> ConnectedComponents(A),
                 is_connected |-> IsConnected(A)]
    /\ last' = [op |-> "connected_components", pre |-> A, arg |-> Item("none", <<>>),
                raised |-> FALSE]
    /\ UNCHANGED << A, B, calls, boxA, boxB, pc, treeVars >>

NextItems ==
    \/ AskComponents
    \/ \E b \in ItemBoxes : AddAny(Item("Box", b))
    \/ \E i \in ItemIntervals : AddAny(Item("Interval", i))
    \/ \E S \in ItemSets : AddAny(Item("BoxSet", S))
    \/ AddAny(Item("str", "not a box"))
    \/ \E b \in ItemBoxes : ErodeAny(Item("Box", b))
    \/ \E S \in ItemSets : ErodeAny(Item("BoxSet", S))

SpecItems == InitItems /\ [][NextItems]_vars

\* the last call added a Box of another dimension than the set's
MismatchedAdd ==
    /\ pc = "items"
    /\ last.op = "add"
    /\ last.arg.kind = "Box"
    /\ last.pre.dimension # 0
    /\ BoxDimension(last.arg.box) # last.pre.dimension

\* C11 as stated: add(b) raises for every Box b whose dimension differs from
\* the dimension the set has fixed.
C11_EveryMismatchRaises == MismatchedAdd => last.raised

\* C11 amended: add(b) raises for every non-empty Box b whose dimension
\* differs from the dimension the set has fixed; an empty Box is ignored
\* whatever its dimension, and the set stays as it was.
C11_MismatchRaises ==
    MismatchedAdd =>
        IF BoxIsEmpty(last.arg.box) THEN ~last.raised /\ A = last.pre
        ELSE last.raised

\* C11 witness: a non-empty 1-D Box added to a set of 2-D boxes raised.
C11_Witness ==
    /\ MismatchedAdd
    /\ ~BoxIsEmpty(last.arg.box)
    /\ last.pre.dimension = 2
    /\ Len(last.pre.boxes) >= 2
    /\ last.raised

\* C12: when add raises (dimension mismatch or unsupported type) the boxes,
\* the dimension and the index are as they were before the call.
C12_RaiseLeavesSet ==
    (pc = "items" /\ last.op = "add" /\ last.raised) => A = last.pre

\* C12 witness: the add of a BoxSet of another dimension raised on a set of
\* several boxes.
C12_Witness ==
    /\ pc = "items"
    /\ last.op = "add"
    /\ last.raised
    /\ last.arg.kind = "BoxSet"
    /\ Len(last.pre.boxes) >= 2
    /\ A = last.pre

\* C16: A.minkowski_difference(S), A not empty and S a BoxSet of k >= 1
\* boxes, equals the intersection of the erosions of A by each box of S; for
\* k = 1 it equals the erosion by that box.
C16_ErosionIsMeet ==
    (/\ pc = "items"
     /\ last.op = "minkowski_difference"
     /\ ~last.raised
     /\ last.arg.kind = "BoxSet"
     /\ ~IsEmptySet(last.pre)
     /\ ~IsEmptySet(last.arg.set)) =>
        /\ Equals(A, ErosionsMeet(last.pre, last.arg.set.boxes, 1))
        /\ Len(last.arg.set.boxes) = 1 =>
               Equals(A, MinkowskiDifferenceBox(last.pre, last.arg.set.boxes[1]))

\* C17: connected_components() puts every box of the set in exactly one
\* component, two boxes in the same one iff a chain of boxes whose closures
\* overlap in every dimension links them; is_connected() is true iff there
\* is at most one component; [0,1] and [2,3] give two singleton components
\* and the set is connected once [1,2] is added.
C17_Components ==
    (pc = "items" /\ last.op = "connected_components") =>
        LET n == Len(A.boxes)
            comps == frags.components
            Touch(i, j) ==
                \A d \in 1..A.dimension :
                    Max(A.boxes[i][d].start, A.boxes[j][d].start)
                        <= Min(A.boxes[i][d].end, A.boxes[j][d].end)
            Twice(R) == { << i, j >> \in (1..n) \X (1..n) :
                             \E k \in 1..n : << i, k >> \in R /\ << k, j >> \in R }
            Chain == Twice(Twice(Twice({ << i, j >> \in (1..n) \X (1..n) :
                                           Touch(i, j) })))
            Where(i) == { c \in 1..Len(comps) :
                            \E m \in 1..Len(comps[c].boxes) :
                                comps[c].boxes[m] = A.boxes[i] }
        IN  /\ \A i \in 1..n : Cardinality(Where(i)) = 1
            /\ \A c \in 1..Len(comps) :
                   \A m \in 1..Len(comps[c].boxes) :
                       \E i \in 1..n : comps[c].boxes[m] = A.boxes[i]
            /\ \A i, j \in 1..n : Where(i) = Where(j) <=> << i, j >> \in Chain
            /\ frags.is_connected <=> Len(comps) <= 1
            /\ A.boxes = << << Closed(0, 1) >>, << Closed(2, 3) >> >> =>
                   /\ Len(comps) = 2
                   /\ Len(comps[1].boxes) = 1
                   /\ Len(comps[2].boxes) = 1
            /\ (/\ n = 3
                /\ A.boxes[1] = << Closed(0, 1) >>
                /\ A.boxes[2] = << Closed(2, 3) >>
                /\ A.boxes[3] = << Interval(1, 2, TRUE, TRUE) >>) => frags.is_connected

\* C17 witness: [0,1] and [2,3] joined by the add of [1,2] into one component
\* of three boxes.
C17_Witness ==
    /\ pc = "items"
    /\ last.op = "connected_components"
    /\ Len(A.boxes) = 3
    /\ A.boxes[1] = << Closed(0, 1) >>
    /\ A.boxes[2] = << Closed(2, 3) >>
    /\ Len(frags.components) = 1
    /\ Len(frags.components[1].boxes) = 3
    /\ frags.is_connected

(***************************************************************************)
(* SpecPublic: the runs of Spec and those of SpecItems.                    *)
(***************************************************************************)
SpecPublic == (Init \/ InitItems) /\ [][Next \/ NextItems]_vars

\* C14: the dimension of a BoxSet is unset exactly when it holds no boxes and
\* is the dimension of each of its boxes; an add on a set with a dimension
\* leaves it, and an add on a set without one gives it the dimension of the
\* first non-empty box added.
C14_Dimension ==
    LET Ok(S) == /\ S.dimension = 0 <=> S.boxes = <<>>
                 /\ \A k \in 1..Len(S.boxes) :
                       BoxDimension(S.boxes[k]) = S.dimension
        First(boxes) == { k \in 1..Len(boxes) : ~BoxIsEmpty(boxes[k]) }
        Fixed(boxes) ==
            A.dimension = IF \E k \in First(boxes) : \A j \in First(boxes) : k <= j
                          THEN BoxDimension(boxes[CHOOSE k \in First(boxes) :
                                                      \A j \in First(boxes) : k <= j])
                          ELSE 0
    IN  /\ Ok(A)
        /\ ~B.isBox => Ok(B.v)
        /\ (last.op = "add" /\ last.pre.dimension # 0) =>
               A.dimension = last.pre.dimension
        /\ (last.op = "add" /\ last.pre.dimension = 0) =>
               CASE pc = "sets" -> Fixed(<< last.arg >>)
                 [] pc = "items" /\ last.arg.kind = "Box" -> Fixed(<< last.arg.box >>)
                 [] pc = "items" /\ last.arg.kind = "Interval" ->
                        Fixed(<< << last.arg.interval >> >>)
                 [] pc = "items" /\ last.arg.kind = "BoxSet" ->
                        Fixed(last.arg.set.boxes)
                 [] OTHER -> A.dimension = 0

\* C14 witness: a set of two 2-D boxes after an add of another dimension that
\* raised.
C14_Witness ==
    /\ pc = "items"
    /\ last.op = "add"
    /\ last.raised
    /\ last.arg.kind \in { "Box", "Interval" }
    /\ A.dimension = 2
    /\ Len(A.boxes) >= 2

(***************************************************************************)
(* SpecAll: the runs of Spec and those of SpecIndex.                       *)
(***************************************************************************)
SpecAll == (Init \/ InitIndex) /\ [][Next \/ NextIndex]_vars

(***************************************************************************)
(* SpecBox: Box.difference applied to every pair of 2-D boxes.             *)
(***************************************************************************)
BoxInputs == Boxes2(IntervalsOver(Even(BoxMaxCoord))) \cup { EmptyBox(2) }

InitBox ==
    /\ boxA \in BoxInputs
    /\ boxB \in BoxInputs
    /\ frags = <<>>
    /\ pc = "start"
    /\ IdleTree
    /\ IdleSets

DoBoxDifference ==
    /\ pc = "start"
    /\ frags' = BoxDifference(boxA, boxB)
    /\ pc' = "difference"
    /\ UNCHANGED << boxA, boxB, treeVars, setVars >>

NextBox == DoBoxDifference

SpecBox == InitBox /\ [][NextBox]_vars

\* C2: A.difference(B) has at most 2N boxes, pairwise non-overlapping, none
\* overlapping B, and every point of A minus B lies in exactly one of them
\* while no other point lies in any.
C2_DifferenceExact ==
    pc = "difference" =>
        /\ Len(frags) <= 2 * BoxDimension(boxA)
        /\ PairwiseDisjoint(frags)
        /\ \A k \in 1..Len(frags) : ~BoxOverlaps(frags[k], boxB)
        /\ \A p \in Points2(BoxMaxCoord) :
              CountContaining(frags, p) =
                 IF BoxContainsPoint(boxA, p) /\ ~BoxContainsPoint(boxB, p)
                 THEN 1 ELSE 0

\* C2 witness: a difference cut on both sides in both dimensions.
C2_Witness ==
    /\ pc = "difference"
    /\ Len(frags) = 4
    /\ \E k \in 1..4 : frags[k][1].open_end /\ ~frags[k][1].open_start

(***************************************************************************)
(* SpecCalls: one call of a Box method on operands of dimension 1 or 2,    *)
(* empty boxes among them.  frags records the call: its name, the point    *)
(* operand, whether the call raised and what it returned.  The endpoints   *)
(* are multiples of 4, so that the shifts by multiples of 2 and the        *)
(* integer points tell the results apart.                                  *)
(***************************************************************************)
\* Does a.op(b), or a.op(p) for the methods that take a point, raise?
\* overlaps, intersection and difference compare the dimensions before
\* anything else, and contains(point) the lengths; distance,
\* distance_to_point and minkowski_difference first return for an empty box.
BoxCallRaises(op, a, b, p) ==
    CASE op \in { "overlaps", "intersection", "difference" } ->
            BoxDimension(a) # BoxDimension(b)
      [] op = "contains" -> Len(p) # BoxDimension(a)
      [] op \in { "distance", "minkowski_difference" } ->
            ~(BoxIsEmpty(a) \/ BoxIsEmpty(b)) /\ BoxDimension(a) # BoxDimension(b)
      [] op = "distance_to_point" -> ~BoxIsEmpty(a) /\ Len(p) # BoxDimension(a)

\* what a call that does not raise returns
BoxCallResult(op, a, b, p) ==
    CASE op = "overlaps" -> BoxOverlaps(a, b)
      [] op = "intersection" -> BoxIntersection(a, b)
      [] op = "difference" -> BoxDifference(a, b)
      [] op = "contains" -> BoxContainsPoint(a, p)
      [] op = "distance" -> BoxDistance(a, b)
      [] op = "distance_to_point" -> BoxDistanceToPoint(a, p)
      [] op = "minkowski_difference" -> BoxMinkowskiDifference(a, b)

\* the intervals of the operands, all within [-4, 8]
CallIntervals ==
    { Closed(0, 8), Closed(0, 4), Interval(0, 4, TRUE, TRUE),
      Interval(4, 8, TRUE, TRUE), Closed(-4, 4), Interval(-4, 4, TRUE, TRUE),
      Closed(4, 4), Closed(0, 0) }

CallBoxes ==
    { << i >> : i \in CallIntervals } \cup Boxes2(CallIntervals)
        \cup { EmptyBox(1), EmptyBox(2) }

CallPoints == { << 1 >>, << 1, 9 >> }

InitCalls ==
    /\ boxA \in CallBoxes
    /\ boxB \in CallBoxes
    /\ frags \in { [op |-> "none", point |-> p, raised |-> FALSE, result |-> <<>>] :
                      p \in CallPoints }
    /\ pc = "operands"
    /\ IdleTree
    /\ IdleSets

BoxCall(op) ==
    /\ pc = "operands"
    /\ frags' = [frags EXCEPT
                    !.op = op,
                    !.raised = BoxCallRaises(op, boxA, boxB, frags.point),
                    !.result = IF BoxCallRaises(op, boxA, boxB, frags.point)
                               THEN <<>>
                               ELSE BoxCallResult(op, boxA, boxB, frags.point)]
    /\ pc' = "called"
    /\ UNCHANGED << boxA, boxB, treeVars, setVars >>

NextCalls ==
    \E op \in { "overlaps", "intersection", "difference", "distance", "contains",
                "distance_to_point", "minkowski_difference" } : BoxCall(op)

SpecCalls == InitCalls /\ [][NextCalls]_vars

\* the call made had operands of different dimensions
CallMismatched ==
    /\ pc = "called"
    /\ IF frags.op \in { "contains", "distance_to_point" }
       THEN Len(frags.point) # BoxDimension(boxA)
       ELSE BoxDimension(boxA) # BoxDimension(boxB)

\* C13: overlaps, intersection, difference, distance, contains(point) and
\* distance_to_point raise whenever the operands' dimensions differ, empty
\* operands included.
C13_MismatchAlwaysRaises ==
    (CallMismatched /\ frags.op # "minkowski_difference") => frags.raised

\* a.erode(b) was called on non-empty boxes of one dimension
Eroded ==
    /\ pc = "called"
    /\ frags.op = "minkowski_difference"
    /\ ~BoxIsEmpty(boxA)
    /\ ~BoxIsEmpty(boxB)
    /\ BoxDimension(boxA) = BoxDimension(boxB)

\* C15: a point x is in A.erode(B) iff B shifted by x lies inside A, that is
\* iff in each dimension every point of B shifted by x is a point of A; when
\* B is longer than A in some dimension the result is the empty box; [0,1]
\* eroded by [-1/2,1/2] is the point box [1/2,1/2] (the unit being 8).
C15_Erosion ==
    Eroded =>
        LET shifts == { 2 * k : k \in -6..6 }
            fits == [d \in 1..Len(boxA) |->
                        { x \in shifts :
                            \A q \in -4..8 :
                                ContainsI(boxB[d], q) => ContainsI(boxA[d], q + x) }]
        IN  /\ \A x \in [1..Len(boxA) -> shifts] :
                   BoxContainsPoint(frags.result, x)
                       <=> \A d \in 1..Len(boxA) : x[d] \in fits[d]
            /\ (\E d \in 1..Len(boxA) : LengthI(boxB[d]) > LengthI(boxA[d]))
                   => frags.result = EmptyBox(BoxDimension(boxA))
            /\ (boxA = << Closed(0, 8) >> /\ boxB = << Closed(-4, 4) >>)
                   => frags.result = << Closed(4, 4) >>

\* C15 witness: a 2-D erosion by a box that does not hold the origin, open
\* where the eroded box is open, with more than a point left.
C15_Witness ==
    /\ Eroded
    /\ BoxDimension(boxA) = 2
    /\ ~BoxContainsPoint(boxB, << 0, 0 >>)
    /\ boxA[1].open_start /\ boxB[1].open_start
    /\ ~BoxIsEmpty(frags.result)
    /\ BoxVolume(frags.result) > 0

\* C19: the distance of two non-empty boxes of one dimension is the norm of
\* the gaps, a gap being 0 for intervals that overlap or are adjacent and
\* the distance between the nearest endpoints otherwise, also when they
\* touch at an endpoint that neither holds; it is the same in both
\* directions, and +infinity when a box is empty.
C19_DistanceIsNorm ==
    (pc = "called" /\ frags.op = "distance"
        /\ BoxDimension(boxA) = BoxDimension(boxB)) =>
        LET gap(d) == IF OverlapsI(boxA[d], boxB[d]) \/ IsAdjacentI(boxA[d], boxB[d])
                      THEN 0
                      ELSE Max(boxB[d].start - boxA[d].end,
                               boxA[d].start - boxB[d].end)
        IN  IF BoxIsEmpty(boxA) \/ BoxIsEmpty(boxB) THEN frags.result = Infinity
            ELSE /\ frags.result =
                        gap(1) * gap(1)
                            + (IF BoxDimension(boxA) = 2 THEN gap(2) * gap(2) ELSE 0)
                 /\ frags.result = BoxDistance(boxB, boxA)

(***************************************************************************)
(* SpecFrame: the cube [0,10]^3 with through-holes punched into it one     *)
(* after another, as examples/csg_3d.py does.  B lists the holes punched.  *)
(***************************************************************************)
Cube == << Closed(0, 10), Closed(0, 10), Closed(0, 10) >>

\* the hole along an axis with the square cross-section c x c
ThroughHole(axis, c) == [d \in 1..3 |-> IF d = axis THEN Closed(-1, 11) ELSE c]

FrameHoles == { ThroughHole(axis, c) : axis \in 1..3, c \in { Closed(2, 8), Closed(4, 6) } }

InitFrame ==
    /\ A = BoxSetOf(<< Cube >>)
    /\ B = <<>>
    /\ last = [op |-> "new", pre |-> EmptyBoxSet, arg |-> <<>>]
    /\ calls = [addA |-> 0, addB |-> 0, ops |-> 0]
    /\ pc = "frame"
    /\ IdleBox
    /\ IdleTree

\* frame = frame - hole
Punch(hole) ==
    /\ pc = "frame"
    /\ calls.ops < MaxHoles
    /\ A' = DifferenceBox(A, hole)
    /\ B' = Append(B, hole)
    /\ last' = [op |-> "difference", pre |-> A, arg |-> hole]
    /\ calls' = [calls EXCEPT !.ops = @ + 1]
    /\ UNCHANGED << pc, boxVars, treeVars >>

NextFrame == \E hole \in FrameHoles : Punch(hole)

SpecFrame == InitFrame /\ [][NextFrame]_vars

\* the three holes of cross-section 6 x 6 were punched, along x, y and z
FramePunched ==
    /\ pc = "frame"
    /\ B = << ThroughHole(1, Closed(2, 8)), ThroughHole(2, Closed(2, 8)),
              ThroughHole(3, Closed(2, 8)) >>

\* C18 as stated: the frame has the volume 1000 - 3*360 + 3*36 - 8 and does
\* not hold the centre (5,5,5).
C18_FrameVolumeStated ==
    FramePunched =>
        /\ Volume(A) = 1000 - 3 * 360 + 3 * 36 - 8
        /\ ~ContainsPoint(A, << 5, 5, 5 >>)

\* C18, amended: the frame has the volume 1000 - 3*360 + 3*216 - 216, the
\* holes meeting two by two, and all three, in the cube [2,8]^3 of volume
\* 216, and does not hold the centre (5,5,5).
C18_FrameVolume ==
    FramePunched =>
        /\ Volume(A) = 1000 - 3 * 360 + 3 * 216 - 216
        /\ ~ContainsPoint(A, << 5, 5, 5 >>)

\* C18 witness: the frame after the three holes, in more than ten boxes, with
\* an edge of the cube left in it.
C18_Witness ==
    /\ FramePunched
    /\ Len(A.boxes) > IndexThreshold
    /\ ContainsPoint(A, << 1, 1, 5 >>)
    /\ ~ContainsPoint(A, << 1, 5, 5 >>)

(***************************************************************************)
(* SpecRTree: any sequence of RTree.insert calls, for the constructor's    *)
(* default branching (2, 4) and for the (1, 2) of the tests.               *)
(***************************************************************************)
TreeConfigs == { << DefaultMinEntries, DefaultMaxEntries >>, << 1, 2 >> }

\* the items: 1-D boxes, closed ones with endpoints in 0..TreeMaxCoord and
\* the open interval over the whole range
TreeItems ==
    UNION { { << Closed(s, e) >> : e \in s..TreeMaxCoord } : s \in 0..TreeMaxCoord }
        \cup { << Interval(0, TreeMaxCoord, TRUE, TRUE) >> }

TreeQueries == { << i >> : i \in IntervalsOver(0..TreeMaxCoord) }

InitRTree ==
    /\ \E c \in TreeConfigs : tree = RTree(c[1], c[2])
    /\ inserted = <<>>
    /\ pc = "tree"
    /\ IdleBox
    /\ IdleSets

Insert(item) ==
    /\ pc = "tree"
    /\ Len(inserted) < MaxInserts
    /\ tree' = RTreeInsert(tree, item)
    /\ inserted' = Append(inserted, item)
    /\ UNCHANGED << pc, boxVars, setVars >>

NextRTree == \E item \in TreeItems : Insert(item)

SpecRTree == InitRTree /\ [][NextRTree]_vars

\* the nodes reachable from the root
RECURSIVE Reach(_, _)
Reach(T, n) ==
    { n } \cup UNION { Reach(T, T.nodes[n].children[k].node) :
                         k \in { j \in 1..Len(T.nodes[n].children) :
                                     T.nodes[n].children[j].node # 0 } }

Live(T) == Reach(T, T.root)

\* the items stored beneath node n
RECURSIVE ItemsBeneath(_, _)
ItemsBeneath(T, n) ==
    LET ch == T.nodes[n].children
    IN  { ch[k].item : k \in { j \in 1..Len(ch) : ch[j].node = 0 } }
           \cup UNION { ItemsBeneath(T, ch[k].node) :
                           k \in { j \in 1..Len(ch) : ch[j].node # 0 } }

Occurrences(seq, x) == Cardinality({ k \in 1..Len(seq) : seq[k] = x })

\* C5: search(q) returns exactly the inserted items whose bound overlaps q,
\* each as many times as it was inserted.
C5_SearchExact ==
    pc = "tree" =>
        \A q \in TreeQueries :
            LET found == RTreeSearch(tree, q)
            IN  \A it \in TreeItems :
                    Occurrences(found, it) =
                        IF OverlapsMbr(it, q) THEN Occurrences(inserted, it) ELSE 0

\* C5 witness: after an internal node was split (the height is 3), a search
\* finds some but not all of the items.
C5_Witness ==
    /\ pc = "tree"
    /\ ~tree.nodes[tree.root].is_leaf
    /\ \E k \in 1..Len(tree.nodes[tree.root].children) :
          ~tree.nodes[tree.nodes[tree.root].children[k].node].is_leaf
    /\ \E q \in TreeQueries :
          LET found == RTreeSearch(tree, q)
          IN  Len(found) > 0 /\ Len(found) < Len(inserted)

\* C6: every node's bounding region is the expand-fold of its children's
\* bounds and encloses the bound of every item beneath it.
Encloses(m, b) ==
    \A d \in 1..Len(b) : IntersectionI(m[d], b[d]) = b[d]

C6_BoundsEnclose ==
    pc = "tree" =>
        \A n \in Live(tree) :
            /\ tree.nodes[n].mbr = FoldMbr(tree, tree.nodes[n].children, 1, NoMbr)
            /\ \A it \in ItemsBeneath(tree, n) : Encloses(tree.nodes[n].mbr, it)

\* C6 witness: a three-level tree whose root bound is wider than each child's.
C6_Witness ==
    /\ pc = "tree"
    /\ ~tree.nodes[tree.root].is_leaf
    /\ \E k \in 1..Len(tree.nodes[tree.root].children) :
          ~tree.nodes[tree.nodes[tree.root].children[k].node].is_leaf
    /\ \A k \in 1..Len(tree.nodes[tree.root].children) :
          tree.nodes[tree.nodes[tree.root].children[k].node].mbr
              # tree.nodes[tree.root].mbr

\* the leaves reachable from the root
Leaves(T) == { n \in Live(T) : T.nodes[n].is_leaf }

RECURSIVE ItemList(_, _)
RECURSIVE ItemListOf(_, _, _)
ItemListOf(T, ch, k) ==
    IF k > Len(ch) THEN <<>>
    ELSE (IF ch[k].node = 0 THEN << ch[k].item >> ELSE ItemList(T, ch[k].node))
            \o ItemListOf(T, ch, k + 1)

ItemList(T, n) == ItemListOf(T, T.nodes[n].children, 1)

\* C21: whenever the set has an index, the items stored in the index are the
\* boxes of the set, each as many times as the set holds it.
C21_IndexHoldsBoxes ==
    (pc = "index" /\ A.index # NoIndex) =>
        LET items == ItemList(A.index, A.index.root)
        IN  /\ Len(items) = Len(A.boxes)
            /\ \A k \in 1..Len(A.boxes) :
                  Occurrences(items, A.boxes[k]) = Occurrences(A.boxes, A.boxes[k])

\* C21 witness: the add during which the index was built appended fragments
\* after the one that crossed the threshold.
C21_Witness ==
    /\ pc = "index"
    /\ last.op = "add"
    /\ last.pre.index = NoIndex
    /\ A.index # NoIndex
    /\ Len(A.boxes) > IndexThreshold + 1
    /\ Len(ItemList(A.index, A.index.root)) = Len(A.boxes)

\* C22: a set built by add has no index while it holds IndexThreshold boxes
\* or fewer, has one once it holds more, and an add never drops the index.
C22_IndexFromThreshold ==
    pc = "index" =>
        /\ Len(A.boxes) <= IndexThreshold => A.index = NoIndex
        /\ Len(A.boxes) > IndexThreshold => A.index # NoIndex
        /\ last.pre.index # NoIndex => A.index # NoIndex

\* C22 witness: an add on a set of more than IndexThreshold boxes, which had
\* its index before the call and has it after.
C22_Witness ==
    /\ pc = "index"
    /\ last.op = "add"
    /\ Len(last.pre.boxes) > IndexThreshold
    /\ last.pre.index # NoIndex
    /\ A.index # NoIndex
    /\ Len(A.boxes) > Len(last.pre.boxes)

\* C23: add appends only: the boxes before the call are the first boxes
\* after it, in the same order and unaltered, and each box appended is a
\* non-empty part of the incoming box.
C23_AddAppendsOnly ==
    (pc \in { "sets", "index" } /\ last.op = "add") =>
        /\ Len(last.pre.boxes) <= Len(A.boxes)
        /\ SubSeq(A.boxes, 1, Len(last.pre.boxes)) = last.pre.boxes
        /\ \A k \in (Len(last.pre.boxes) + 1)..Len(A.boxes) :
              /\ ~BoxIsEmpty(A.boxes[k])
              /\ Encloses(last.arg, A.boxes[k])

\* C23 witness: an add of a box that overlaps the set appended two or more
\* fragments, none of them the box itself, behind the boxes that were there.
C23_Witness ==
    /\ pc \in { "sets", "index" }
    /\ last.op = "add"
    /\ Len(last.pre.boxes) > 0
    /\ Len(A.boxes) > Len(last.pre.boxes) + 1
    /\ \A k \in (Len(last.pre.boxes) + 1)..Len(A.boxes) : A.boxes[k] # last.arg
    /\ SubSeq(A.boxes, 1, Len(last.pre.boxes)) = last.pre.boxes

(***************************************************************************)
(* SpecObjects: BoxSet objects and the operations called on them.  frags   *)
(* is the store, the objects in the order they were made; A is what the    *)
(* last operation returned; last records the last call: the receiver self, *)
(* the operand other and what was returned, result, as places in the       *)
(* store, and the store before the call.  After an operation an add may be *)
(* made on its result.                                                     *)
(***************************************************************************)
ObjectSets ==
    { EmptyBoxSet, BoxSetOf(<< << Closed(0, 2) >> >>),
      BoxSetOf(<< << Closed(0, 1) >>, << Interval(2, 4, TRUE, FALSE) >> >>) }

ObjectBoxes == { << Closed(1, 3) >>, << Closed(6, 7) >> }

Operations ==
    { "union", "intersection", "difference", "symmetric_difference", "interior",
      "closure", "boundary", "minkowski_sum", "minkowski_difference",
      "dilate_epsilon", "opening", "closing" }

InitObjects ==
    /\ \E S \in ObjectSets, O \in ObjectSets : frags = << S, O >>
    /\ last = [op |-> "new", self |-> 1, other |-> 2, epsilon |-> 0, result |-> 0,
               pre |-> <<>>]
    /\ calls = [addA |-> 0, addB |-> 0, ops |-> 0]
    /\ pc = "objects"
    /\ A = Returned("new", EmptyBoxSet)
    /\ B = <<>>
    /\ boxA = <<>>
    /\ boxB = <<>>
    /\ IdleTree

Operate(op, s, o, epsilon) ==
    /\ pc = "objects"
    /\ calls.ops < MaxCalls
    /\ s \in 1..Len(frags)
    /\ o \in 1..Len(frags)
    /\ A' = Operation(op, frags[s], frags[o], epsilon)
    /\ frags' = IF A'.ref = "new" THEN Append(frags, A'.set) ELSE frags
    /\ last' = [op |-> op, self |-> s, other |-> o, epsilon |-> epsilon,
                result |-> IF A'.ref = "new" THEN Len(frags) + 1
                           ELSE IF A'.ref = "self" THEN s ELSE o,
                pre |-> frags]
    /\ calls' = [calls EXCEPT !.ops = @ + 1]
    /\ UNCHANGED << B, pc, boxA, boxB, treeVars >>

\* result.add(box) on what the last operation returned
AddToResult(box) ==
    /\ pc = "objects"
    /\ last.op \in Operations
    /\ frags' = [frags EXCEPT ![last.result] = Add(@, box)]
    /\ last' = [last EXCEPT !.op = "add", !.pre = frags]
    /\ UNCHANGED << A, B, calls, pc, boxA, boxB, treeVars >>

NextObjects ==
    \/ \E op \in Operations, s \in 1..(MaxCalls + 2), o \in 1..(MaxCalls + 2),
          epsilon \in 0..1 :
          Operate(op, s, o, epsilon)
    \/ \E box \in ObjectBoxes : AddToResult(box)

SpecObjects == InitObjects /\ [][NextObjects]_vars

\* C24: every operation returns a BoxSet that was not there before the call
\* and leaves every BoxSet that was there as it was, and an add on the
\* result leaves the boxes of the receiver and of the operand as they were.
C24_ReturnsNewSet ==
    pc = "objects" =>
        /\ last.op \in Operations =>
              /\ last.result > Len(last.pre)
              /\ \A a \in 1..Len(last.pre) : frags[a] = last.pre[a]
        /\ last.op = "add" =>
              /\ frags[last.self].boxes = last.pre[last.self].boxes
              /\ frags[last.other].boxes = last.pre[last.other].boxes

\* the pairs (i, k) of overlapping boxes of two lists
OverlappingPairs(as, bs) ==
    { << i, k >> \in (1..Len(as)) \X (1..Len(bs)) : BoxOverlaps(as[i], bs[k]) }

\* C25: the boxes of A.intersection(B) are the intersections of the
\* overlapping pairs, one box for each pair in the order of the pairs, none
\* of them cut or dropped when the result is constructed, and no two of them
\* overlap.
C25_OneBoxPerPair ==
    (pc = "sets" /\ last.op = "intersection") =>
        LET as == last.pre.boxes
            bs == Promote(last.arg).boxes
        IN  /\ Len(A.boxes) = Cardinality(OverlappingPairs(as, bs))
            /\ A.boxes = PairIntersections(as, bs, 1, 1)
            /\ PairwiseDisjoint(A.boxes)

\* C25 witness: an intersection of two sets of two or more boxes each with
\* three or more overlapping pairs.
C25_Witness ==
    /\ pc = "sets"
    /\ last.op = "intersection"
    /\ ~last.arg.isBox
    /\ Len(last.pre.boxes) >= 2
    /\ Len(last.arg.v.boxes) >= 2
    /\ Len(A.boxes) >= 3
    /\ Len(A.boxes) < Len(last.pre.boxes) * Len(last.arg.v.boxes)

(***************************************************************************)
(* SpecSplit: the inserts of SpecRTree with a record of each call in last: *)
(* the item, the tree before the call, the leaf _choose_leaf returned and  *)
(* the executions of _split_node, one after another from the leaf up.      *)
(***************************************************************************)
\* One execution of _split_node on node n of T, up to the update of the
\* hierarchy: T1 is the tree once the children are in the groups g1 and g2,
\* T2 the tree once the groups are in the parent or under a new root.
SplitRecord(T, n, seeds, T1, T2) ==
    [node     |-> n,
     before   |-> T.nodes[n].children,
     bounds   |-> [c \in 1..Len(T.nodes[n].children) |->
                     GetMbr(T, T.nodes[n].children[c])],
     seeds    |-> seeds,
     group1   |-> T1.nodes[Len(T.nodes) + 1],
     group2   |-> T1.nodes[Len(T.nodes) + 2],
     g1       |-> Len(T.nodes) + 1,
     g2       |-> Len(T.nodes) + 2,
     was_root |-> n = T.root,
     parent   |-> T.nodes[n].parent,
     above    |-> IF n = T.root THEN <<>>
                  ELSE T.nodes[T.nodes[n].parent].children,
     placed   |-> IF n = T.root THEN T2.nodes[T2.root].children
                  ELSE T2.nodes[T.nodes[n].parent].children,
     new_root |-> T2.root,
     old_root |-> T.root]

\* the tree after the hierarchy update of one split, before any split of
\* the parent
Rehung(T1, n, g1, g2) ==
    IF n = T1.root THEN NewRoot(T1, g1, g2)
    ELSE ReplaceInParent(T1, T1.nodes[n].parent, n, g1, g2)

\* the executions of _split_node that start at node n of T
RECURSIVE SplitTrace(_, _)
SplitTrace(T, n) ==
    IF Len(T.nodes[n].children) <= T.max_entries THEN <<>>
    ELSE LET seeds == PickSeeds(T, T.nodes[n].children)
             T1    == Distribute(Seeded(T, n, T.nodes[n].children[seeds[1]],
                                        T.nodes[n].children[seeds[2]]),
                                 n, Len(T.nodes) + 1, Len(T.nodes) + 2)
             T2    == Rehung(T1, n, Len(T.nodes) + 1, Len(T.nodes) + 2)
         IN  << SplitRecord(T, n, seeds, T1, T2) >>
                \o (IF n # T.root /\ T.nodes[n].parent # 0
                    THEN SplitTrace(T2, T.nodes[n].parent) ELSE <<>>)

InitSplit ==
    /\ \E c \in TreeConfigs : tree = RTree(c[1], c[2])
    /\ inserted = <<>>
    /\ last = [item |-> NoItem, pre |-> <<>>, leaf |-> 0, splits |-> <<>>]
    /\ pc = "split"
    /\ A = <<>>
    /\ B = <<>>
    /\ calls = <<>>
    /\ IdleBox

InsertTraced(item) ==
    /\ pc = "split"
    /\ Len(inserted) < MaxInserts
    /\ tree' = RTreeInsert(tree, item)
    /\ inserted' = Append(inserted, item)
    /\ last' = [item   |-> item,
                pre    |-> tree,
                leaf   |-> ChooseLeaf(tree, tree.root, item),
                splits |-> SplitTrace(AddChild(tree, ChooseLeaf(tree, tree.root, item),
                                               ItemEntry(item), item),
                                      ChooseLeaf(tree, tree.root, item))]
    /\ UNCHANGED << A, B, calls, pc, boxVars >>

NextSplit == \E item \in TreeItems : InsertTraced(item)

SpecSplit == InitSplit /\ [][NextSplit]_vars

\* C26: every split of a node of max_entries + 1 children hands each child
\* to exactly one of two groups, each group gets min_entries children or
\* more, and the two groups take the place of the node in its parent, or
\* are the two children of a new root when the node was the root.
C26_SplitKeepsChildren ==
    pc = "split" =>
        \A k \in 1..Len(last.splits) :
            LET r == last.splits[k]
                both == r.group1.children \o r.group2.children
            IN  Len(r.before) = tree.max_entries + 1 =>
                  /\ Len(both) = Len(r.before)
                  /\ \A c \in 1..Len(r.before) :
                        Occurrences(both, r.before[c]) = Occurrences(r.before, r.before[c])
                  /\ Len(r.group1.children) >= tree.min_entries
                  /\ Len(r.group2.children) >= tree.min_entries
                  /\ IF r.was_root
                     THEN /\ r.new_root # r.old_root
                          /\ r.placed = << NodeEntry(r.g1), NodeEntry(r.g2) >>
                     ELSE /\ r.new_root = r.old_root
                          /\ Occurrences(r.placed, NodeEntry(r.node)) = 0
                          /\ Occurrences(r.placed, NodeEntry(r.g1)) = 1
                          /\ Occurrences(r.placed, NodeEntry(r.g2)) = 1
                          /\ Len(r.placed) = Len(r.above) + 1
                          /\ \A c \in 1..Len(r.above) :
                                r.above[c] # NodeEntry(r.node) =>
                                    Occurrences(r.placed, r.above[c]) = 1

\* C26 witness: an insert that split a leaf below the root and then the
\* root above it.
C26_Witness ==
    /\ pc = "split"
    /\ Len(last.splits) = 2
    /\ ~last.splits[1].was_root
    /\ last.splits[2].was_root
    /\ Len(last.splits[2].before) = tree.max_entries + 1

\* the waste of _pick_seeds for two children of bounds m1 and m2
WasteOf(m1, m2) == GetVolume(ExpandMbr(m1, m2)) - GetVolume(m1) - GetVolume(m2)

\* C27: the seeds _pick_seeds returns are a pair of children of maximal
\* waste among all pairs of children.
C27_SeedsOfMaximalWaste ==
    pc = "split" =>
        \A k \in 1..Len(last.splits) :
            LET r == last.splits[k]
            IN  /\ r.seeds[1] < r.seeds[2]
                /\ \A i, j \in 1..Len(r.before) :
                      i < j =>
                          WasteOf(r.bounds[i], r.bounds[j])
                              <= WasteOf(r.bounds[r.seeds[1]], r.bounds[r.seeds[2]])

\* the nodes among the children of node n
NodeChildren(T, n) ==
    { T.nodes[n].children[k].node :
        k \in { j \in 1..Len(T.nodes[n].children) : T.nodes[n].children[j].node # 0 } }

\* what _choose_leaf weighs for child c: the enlargement of its bound by the
\* item, the volume of the enlarged bound and the number of its children
Cost(T, c, item_mbr) ==
    << GetVolume(ExpandMbr(T.nodes[c].mbr, item_mbr))
          - (IF T.nodes[c].mbr # NoMbr THEN GetVolume(T.nodes[c].mbr) ELSE 0),
       GetVolume(ExpandMbr(T.nodes[c].mbr, item_mbr)),
       Len(T.nodes[c].children) >>

LexLeq(x, y) ==
    \/ x[1] < y[1]
    \/ x[1] = y[1] /\ x[2] < y[2]
    \/ x[1] = y[1] /\ x[2] = y[2] /\ x[3] <= y[3]

\* from node n down to the leaf, every step goes to a child of least cost
RECURSIVE LeastCostPath(_, _, _, _)
LeastCostPath(T, n, item_mbr, leaf) ==
    IF T.nodes[n].is_leaf \/ NodeChildren(T, n) = {} THEN leaf = n
    ELSE \E c \in NodeChildren(T, n) :
            /\ leaf \in Reach(T, c)
            /\ \A d \in NodeChildren(T, n) :
                  LexLeq(Cost(T, c, item_mbr), Cost(T, d, item_mbr))
            /\ LeastCostPath(T, c, item_mbr, leaf)

\* C28: the leaf _choose_leaf returns is reached from the root by going, at
\* every internal node, to a node child that is least in (enlargement,
\* resulting volume, number of children), and is the node itself where there
\* is no node child.
C28_ChoosesLeastCost ==
    (pc = "split" /\ Len(inserted) > 0) =>
        /\ last.pre.nodes[last.leaf].is_leaf
        /\ LeastCostPath(last.pre, last.pre.root, last.item, last.leaf)

\* C28 witness: the root was internal and the child taken was not its first
\* node child but one that needed the same enlargement as another child and
\* won on the resulting volume or on the number of children.
C28_Witness ==
    /\ pc = "split"
    /\ Len(inserted) > 0
    /\ ~last.pre.nodes[last.pre.root].is_leaf
    /\ \E c, d \in NodeChildren(last.pre, last.pre.root) :
          /\ last.leaf \in Reach(last.pre, c)
          /\ c # last.pre.nodes[last.pre.root].children[1].node
          /\ c # d
          /\ Cost(last.pre, c, last.item)[1] = Cost(last.pre, d, last.item)[1]
          /\ Cost(last.pre, c, last.item) # Cost(last.pre, d, last.item)
          /\ LexLeq(Cost(last.pre, c, last.item), Cost(last.pre, d, last.item))

\* C29: after every insert the root has no parent, every other node beneath
\* the root is once among the children of the node its parent field names,
\* itself beneath the root, and among the children of no other node; and
\* the nodes that were split are no longer beneath the root.
C29_ParentsConsistent ==
    (pc = "split" /\ Len(inserted) > 0) =>
        /\ tree.nodes[tree.root].parent = 0
        /\ \A n \in Live(tree) \ { tree.root } :
              /\ tree.nodes[n].parent \in Live(tree)
              /\ \A m \in Live(tree) :
                    Occurrences(tree.nodes[m].children, NodeEntry(n))
                        = IF m = tree.nodes[n].parent THEN 1 ELSE 0
        /\ \A k \in 1..Len(last.splits) : last.splits[k].node \notin Live(tree)

\* C29 witness: an insert split a leaf and the root above it, and the tree
\* has nodes at three levels.
C29_Witness ==
    /\ pc = "split"
    /\ Len(last.splits) = 2
    /\ last.splits[2].node = last.pre.root
    /\ tree.root # last.pre.root
    /\ \E n \in Live(tree) :
          /\ tree.nodes[n].parent # 0
          /\ tree.nodes[tree.nodes[n].parent].parent = tree.root

\* the depths below node n, itself at depth d, at which there are leaves
RECURSIVE LeafDepths(_, _, _)
LeafDepths(T, n, d) ==
    IF T.nodes[n].is_leaf THEN { d }
    ELSE UNION { LeafDepths(T, c, d + 1) : c \in NodeChildren(T, n) }

\* the tree is balanced, its items are in leaves and its internal nodes
\* hold nodes
Balanced(T) ==
    /\ Cardinality(LeafDepths(T, T.root, 0)) = 1
    /\ \A n \in Live(T) :
          \A k \in 1..Len(T.nodes[n].children) :
              T.nodes[n].is_leaf <=> T.nodes[n].children[k].node = 0

Height(T) == CHOOSE d \in LeafDepths(T, T.root, 0) : TRUE

\* C30: after every insert all leaves are at one depth below the root, the
\* leaves hold items only and the internal nodes hold nodes only, and the
\* insert made the tree one level higher if it split the root and left its
\* height otherwise.
C30_HeightBalanced ==
    (pc = "split" /\ Len(inserted) > 0) =>
        /\ Balanced(tree)
        /\ Height(tree) = Height(last.pre)
                + (IF \E k \in 1..Len(last.splits) : last.splits[k].was_root
                   THEN 1 ELSE 0)

\* C30 witness: an insert split a leaf and the root, an internal node, and
\* the leaves are two levels below the new root.
C30_Witness ==
    /\ pc = "split"
    /\ Len(last.splits) = 2
    /\ last.splits[2].was_root
    /\ ~last.splits[2].group1.is_leaf
    /\ Height(last.pre) = 1
    /\ LeafDepths(tree, tree.root, 0) = { 2 }
    /\ Cardinality(Leaves(tree)) >= 3

====
